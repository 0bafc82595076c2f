------------------------------- MODULE Levels -------------------------------
(* How levels are raised (program/util.hpp). *)
EXTENDS Integers

\* 0.02 level^2 + 0.5 level + 5 in single precision, cut down to an integer: exact up to
\* level 100 but for level 60, where the sum falls just short of 107.
level_boost(level) ==
  IF level = 60 THEN 106 ELSE (2 * level * level + 50 * level + 500) \div 100
=============================================================================
