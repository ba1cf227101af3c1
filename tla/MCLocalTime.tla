----------------------------- MODULE MCLocalTime -----------------------------
(* LocalTime around the dates where a calendar goes wrong.                 *)
EXTENDS LocalTime

\* First and last days of years, and the days around the end of February, in
\* common, leap and century years, as days since 1970.
MCYears == {1970, 1971, 1972, 1999, 2000, 2001, 2023, 2024, 2099, 2100, 2101}

MCDays == UNION {{DaysToYear(y) + d : d \in {1, 30, 31, 58, 59, 60, 90, 180, 364}}
                   : y \in MCYears}

MCSeconds == {0, 3599, 82800, 86399}

\* An hour east of Greenwich, Greenwich, five hours and a half east.
MCZones == {-3600, 0, -19800}
=============================================================================
