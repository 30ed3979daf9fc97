---------------------------- MODULE MCValidator ----------------------------
(***************************************************************************)
(* Two bundles of three bytes, behind another one and before the next.     *)
(***************************************************************************)
EXTENDS Validator

I(n, t, a, c) == [len |-> n, type |-> t, arg |-> a, call |-> c]

MCSpace == 0 .. 12

\* Register 1 can be masked, register 2 cannot.  4 and 5 are inside a bundle,
\* 10 is inside a bundle elsewhere, 9 is the next bundle.
MCInsts ==
    { I(1, "plain", 0, FALSE), I(2, "plain", 0, FALSE), I(1, "mask", 1, FALSE),
      I(1, "indirect", 1, FALSE), I(1, "indirect", 2, FALSE),
      I(1, "direct", 4, FALSE), I(1, "direct", 10, FALSE),
      I(2, "direct", 9, TRUE), I(2, "lacking", 0, FALSE), I(2, "bad", 0, FALSE) }

MCNewInsts ==
    { I(1, "plain", 0, FALSE), I(1, "mask", 1, FALSE), I(1, "indirect", 1, FALSE),
      I(1, "direct", 4, FALSE), I(2, "lacking", 0, FALSE) }
============================================================================
