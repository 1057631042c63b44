------------------------------- MODULE Common -------------------------------
EXTENDS Integers

\* The value of an optional field that is not set: Python's None, SQL's NULL.
CONSTANT None

Abs(x) == IF x < 0 THEN -x ELSE x
=============================================================================
