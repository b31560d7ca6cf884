------------------------------ MODULE Response ------------------------------
(***************************************************************************)
(* The answers of the MIIT service and the accessors of                    *)
(* internal/beian/response.go. A value of an answer is a number, a string  *)
(* of digits or something else, a missing member included. What Query      *)
(* returns is an answer or an error.                                       *)
(***************************************************************************)
EXTENDS Integers, Sequences

\* The values of "code" and "total".
NoNumber == [is |-> "other", n |-> 0]
Number(n) == [is |-> "number", n |-> n]
Numeral(n) == [is |-> "string", n |-> n]

\* "items" is params.list, empty when the answer has no params or no list.
Answer(code, items, total) == [error |-> FALSE, code |-> code, items |-> items, total |-> total]
Failed == [error |-> TRUE, code |-> NoNumber, items |-> <<>>, total |-> NoNumber]

\* numberValue succeeds: a number is cut to an int, a string of digits is read.
IsNumber(v) == v.is \in {"number", "string"}

\* ResponseCode is there and says success.
CodeIs(a, codes) == IsNumber(a.code) /\ a.code.n \in codes

\* Faulty variant: the service's own 500 is passed on as an empty answer.
NormalizeToEmpty(a) == IF CodeIs(a, {500}) THEN Answer(Number(200), <<>>, NoNumber) ELSE a

\* normalizeResponse: the service's own 500 becomes 122, without params.
Normalize(a) == IF CodeIs(a, {500}) THEN Answer(Number(122), <<>>, NoNumber) ELSE a

============================================================================
