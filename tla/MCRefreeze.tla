---- MODULE MCRefreeze ----
\* Two components of the cohort.
EXTENDS Refreeze
CONSTANTS a, b
MCComponents == {a, b}
====
