--------------------------- MODULE MCWeatherMonitor ---------------------------
EXTENDS WeatherMonitor

\* Workers are interchangeable.
Symmetry == Permutations(Workers)

=============================================================================
