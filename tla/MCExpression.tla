---------------------------- MODULE MCExpression ----------------------------
(***************************************************************************)
(* Inputs for Expression.  WellFormed prints every expression tree over   *)
(* the leaves "1" and "2" with the fewest parentheses that keep its shape *)
(* (a right operand of equal precedence is parenthesised, so "1*(2*1)"    *)
(* and "1*2*1" are both there): all trees of up to three operators, the   *)
(* "+"/"*" trees of four and the "*" trees of five, which is where the    *)
(* single and double rotations of reorg_from happen.  AllStrings is every *)
(* string of up to five characters over digits, space, parentheses, "+"   *)
(* and "*".                                                                *)
(***************************************************************************)
EXTENDS Expression

MCLeafVal == [i \in 0 .. 999 |-> 2 * i + 3]

Wrap(x, paren) == IF paren THEN <<"(">> \o x.s \o <<")">> ELSE x.s

Combine(l, o, r) ==
    [s |-> Wrap(l, Prec[o] > l.prec) \o <<o>> \o Wrap(r, Prec[o] >= r.prec),
     prec |-> Prec[o]]

RECURSIVE Printed(_, _)
Printed(n, ops) ==
    IF n = 0 THEN {[s |-> <<d>>, prec |-> 4] : d \in {"1", "2"}}
    ELSE UNION {{Combine(l, o, r) : l \in Printed(i, ops), r \in Printed(n - 1 - i, ops),
                                    o \in ops} : i \in 0 .. n - 1}

WellFormed ==
    {p.s : p \in UNION {Printed(n, {"+", "-", "*"}) : n \in 1 .. 3}
                 \cup Printed(4, {"+", "*"}) \cup Printed(5, {"*"})}

Alphabet == {"1", "2", " ", "(", ")", "+", "*"}

AllStrings == UNION {[1 .. n -> Alphabet] : n \in 1 .. 5}
=============================================================================
