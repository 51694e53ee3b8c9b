----------------------------- MODULE Expression -----------------------------
(***************************************************************************)
(* The expression of an FHE computation (src/src/computer/ast.cpp).       *)
(*                                                                         *)
(* ASTree's constructor turns the expression string into postfix tokens   *)
(* (ASTree::shunt, a shunting-yard pass) and then builds the tree by      *)
(* reading the postfix tokens from the back (ASTree::build_tree).  Every  *)
(* "*" node inserted triggers reorg_from, which recomputes depth_ up to   *)
(* the root and rotates chains of "*" nodes AVL-style to lower the        *)
(* multiplicative depth.  FHEComputer::difficulty is the root's depth_,   *)
(* and FHEComputer::eval relies on every depth_ to align ciphertext       *)
(* levels.                                                                 *)
(*                                                                         *)
(* shunt is a pure operator.  build_tree is a loop over the tokens; each  *)
(* iteration is one step of this module, and the tree is a store of node  *)
(* records indexed by node_id_ (parent and child pointers are ids, Null   *)
(* for nullptr), with node_stack a sequence whose last element is top().  *)
(***************************************************************************)
EXTENDS Integers, Sequences, SequencesExt

CONSTANTS
    Exprs,     \* the expression strings, as sequences of one-character strings
    LeafVal    \* LeafVal[i]: the plaintext behind ciphertext i (a leaf "i")

Null == -1

DigitSeq == <<"0", "1", "2", "3", "4", "5", "6", "7", "8", "9">>
Digits   == ToSet(DigitSeq)
DigitVal == [d \in Digits |-> CHOOSE v \in 0 .. 9 : DigitSeq[v + 1] = d]
OpChars  == {"+", "-", "*"}

\* The precedence map of shunt.
Prec == [c \in OpChars |-> IF c = "*" THEN 3 ELSE 2]

NumTok(v) == [isOp |-> FALSE, op |-> "", val |-> v]
OpTok(o)  == [isOp |-> TRUE, op |-> o, val |-> 0]

-----------------------------------------------------------------------------
(***************************************************************************)
(* ASTree::shunt.  The scan state is [out, ops, num, opr, err]: the       *)
(* output queue, the operator stack, found_num, found_operation_operator  *)
(* and the exception thrown ("" while none).                              *)
(***************************************************************************)

\* Pop operators to the output until a "(" is on top or the stack is empty.
RECURSIVE PopToParen(_)
PopToParen(st) ==
    IF st.ops = <<>> \/ Last(st.ops) = "(" THEN st
    ELSE PopToParen([st EXCEPT !.out = Append(@, OpTok(Last(st.ops))),
                               !.ops = Front(@)])

\* A variant that pops only operators of higher precedence, which makes
\* "+", "-" and "*" right associative.
RECURSIVE PopHigher(_, _)
PopHigher(st, c) ==
    IF st.ops = <<>> \/ Last(st.ops) = "(" \/ Prec[c] >= Prec[Last(st.ops)] THEN st
    ELSE PopHigher([st EXCEPT !.out = Append(@, OpTok(Last(st.ops))),
                              !.ops = Front(@)], c)

\* Pop operators of precedence at least c's (left associativity).
RECURSIVE PopNotLower(_, _)
PopNotLower(st, c) ==
    IF st.ops = <<>> \/ Last(st.ops) = "(" \/ Prec[c] > Prec[Last(st.ops)] THEN st
    ELSE PopNotLower([st EXCEPT !.out = Append(@, OpTok(Last(st.ops))),
                                !.ops = Front(@)], c)

\* One character c at index i (1-based) of an expression of length n.
ShuntChar(st, c, i, n) ==
    IF c \in Digits
    THEN [st EXCEPT !.opr = FALSE, !.num = TRUE,
                    !.out = IF st.num
                            THEN [@ EXCEPT ![Len(@)].val = 10 * @ + DigitVal[c]]
                            ELSE Append(@, NumTok(DigitVal[c]))]
    ELSE LET s == [st EXCEPT !.num = FALSE]
         IN  CASE c = " " -> s
               [] c = "(" -> [s EXCEPT !.ops = Append(@, "("), !.opr = TRUE]
               [] c = ")" -> LET p == PopToParen([s EXCEPT !.opr = FALSE])
                             IN  IF p.ops = <<>> THEN [p EXCEPT !.err = "mismatched )"]
                                 ELSE [p EXCEPT !.ops = Front(@)]
               [] c \in OpChars ->
                     IF s.opr THEN [s EXCEPT !.err = "consecutive operations"]
                     ELSE IF i = 1 \/ i = n THEN [s EXCEPT !.err = "operator at an end"]
                     ELSE LET p == PopNotLower([s EXCEPT !.opr = TRUE], c)
                          IN  [p EXCEPT !.ops = Append(@, c)]
               [] OTHER -> [s EXCEPT !.err = "invalid syntax"]

RECURSIVE ShuntFrom(_, _, _)
ShuntFrom(e, i, st) ==
    IF st.err # "" \/ i > Len(e) THEN st
    ELSE ShuntFrom(e, i + 1, ShuntChar(st, e[i], i, Len(e)))

\* The final drain: an empty operator stack is an error, a "(" left on it
\* is an error, anything else goes to the output.
RECURSIVE Drain(_)
Drain(st) ==
    IF st.ops = <<>> THEN st
    ELSE IF Last(st.ops) = "(" THEN [st EXCEPT !.err = "mismatched ("]
    ELSE Drain([st EXCEPT !.out = Append(@, OpTok(Last(st.ops))), !.ops = Front(@)])

\* shunt(expression): [ok, out] with out the postfix token queue.
Shunt(e) ==
    LET st == ShuntFrom(e, 1, [out |-> <<>>, ops |-> <<>>, num |-> FALSE,
                               opr |-> FALSE, err |-> ""])
        fin == IF st.err # "" THEN st
               ELSE IF st.ops = <<>> THEN [st EXCEPT !.err = "no operators"]
               ELSE Drain(st)
    IN  [ok |-> fin.err = "", out |-> fin.out]
-----------------------------------------------------------------------------
(***************************************************************************)
(* The reference: the language the error messages of shunt describe, and *)
(* its meaning.  Tokens are maximal digit runs, operators and parentheses,*)
(* separated by optional spaces; the grammar is                           *)
(*     E ::= T (("+" | "-") T)*    T ::= F ("*" F)*    F ::= num | "(" E ")" *)
(* with at least one operator.  A parse result is [ok, val, dep, i]: the  *)
(* value, the multiplicative depth and the next token index.             *)
(***************************************************************************)

RECURSIVE Lex(_, _, _)
Lex(e, i, toks) ==
    IF i > Len(e) THEN toks
    ELSE IF e[i] \in Digits
         THEN IF i > 1 /\ e[i - 1] \in Digits
              THEN Lex(e, i + 1, [toks EXCEPT ![Len(toks)].val = 10 * @ + DigitVal[e[i]]])
              ELSE Lex(e, i + 1, Append(toks, NumTok(DigitVal[e[i]])))
    ELSE IF e[i] = " " THEN Lex(e, i + 1, toks)
    ELSE Lex(e, i + 1, Append(toks, OpTok(e[i])))

Fail == [ok |-> FALSE, val |-> 0, dep |-> 0, i |-> 0]

Apply(o, x, y) == CASE o = "+" -> x + y [] o = "-" -> x - y [] o = "*" -> x * y

RECURSIVE ParseE(_, _), ParseT(_, _), ParseF(_, _), MoreE(_, _, _), MoreT(_, _, _)
ParseF(ts, i) ==
    IF i > Len(ts) THEN Fail
    ELSE IF ~ts[i].isOp
         THEN [ok |-> TRUE, val |-> LeafVal[ts[i].val], dep |-> 0, i |-> i + 1]
    ELSE IF ts[i].op = "("
         THEN LET r == ParseE(ts, i + 1)
              IN  IF r.ok /\ r.i <= Len(ts) /\ ts[r.i].isOp /\ ts[r.i].op = ")"
                  THEN [r EXCEPT !.i = @ + 1] ELSE Fail
    ELSE Fail
MoreT(ts, l, i) ==
    IF i <= Len(ts) /\ ts[i].isOp /\ ts[i].op = "*"
    THEN LET r == ParseF(ts, i + 1)
         IN  IF ~r.ok THEN Fail
             ELSE MoreT(ts, [l EXCEPT !.val = l.val * r.val,
                                      !.dep = 1 + IF l.dep > r.dep THEN l.dep ELSE r.dep], r.i)
    ELSE [l EXCEPT !.i = i]
ParseT(ts, i) == LET l == ParseF(ts, i) IN IF ~l.ok THEN Fail ELSE MoreT(ts, l, l.i)
MoreE(ts, l, i) ==
    IF i <= Len(ts) /\ ts[i].isOp /\ ts[i].op \in {"+", "-"}
    THEN LET r == ParseT(ts, i + 1)
         IN  IF ~r.ok THEN Fail
             ELSE MoreE(ts, [l EXCEPT !.val = Apply(ts[i].op, l.val, r.val),
                                      !.dep = IF l.dep > r.dep THEN l.dep ELSE r.dep], r.i)
    ELSE [l EXCEPT !.i = i]
ParseE(ts, i) == LET l == ParseT(ts, i) IN IF ~l.ok THEN Fail ELSE MoreE(ts, l, l.i)

\* The reference verdict on an expression string: the whole token list is
\* one E and holds an operator.
Ref(e) ==
    LET ts == Lex(e, 1, <<>>)
        r  == ParseE(ts, 1)
    IN  [r EXCEPT !.ok = r.ok /\ r.i = Len(ts) + 1
                         /\ \E k \in DOMAIN ts : ts[k].isOp /\ ts[k].op \in OpChars]

\* The value of a postfix token queue, or Fail when it is not well formed.
RECURSIVE EvalPostfix(_, _, _)
EvalPostfix(q, i, stk) ==
    IF i > Len(q) THEN IF Len(stk) = 1 THEN [ok |-> TRUE, val |-> stk[1]] ELSE [ok |-> FALSE, val |-> 0]
    ELSE IF ~q[i].isOp THEN EvalPostfix(q, i + 1, Append(stk, LeafVal[q[i].val]))
    ELSE IF Len(stk) < 2 THEN [ok |-> FALSE, val |-> 0]
    ELSE EvalPostfix(q, i + 1, Append(SubSeq(stk, 1, Len(stk) - 2),
                                      Apply(q[i].op, stk[Len(stk) - 1], stk[Len(stk)])))
-----------------------------------------------------------------------------
(***************************************************************************)
(* The tree.  A tree value is [nodes, root, stack, curr, counter]: the    *)
(* node records by node_id_, root_, node_stack, build_tree's local        *)
(* curr_node (declared outside its loop, so it keeps its value between    *)
(* iterations) and node_counter_.  A node is                              *)
(*   [leaf, val, op, parent, left, right, depth, cfd]                     *)
(* with cfd the counts_for_depth_ flag.  A read of top() or a pop() of an *)
(* empty std::stack is undefined behaviour: the result carries ub TRUE.   *)
(***************************************************************************)

EmptyTree == [nodes |-> [i \in {} |-> 0], root |-> Null, stack |-> <<>>, curr |-> Null, counter |-> 0]

GetDepth(T, n)   == IF n = Null THEN 0 ELSE T.nodes[n].depth
GetBalance(T, n) == IF n = Null THEN 0
                    ELSE GetDepth(T, T.nodes[n].left) - GetDepth(T, T.nodes[n].right)
Max2(x, y) == IF x > y THEN x ELSE y

\* ASTNode::is_full, can_rotate_left and can_rotate_right (a leaf's op_ is "").
IsFull(T, n) == T.nodes[n].left # Null /\ T.nodes[n].right # Null
CanRotateLeft(T, n) ==
    T.nodes[n].right # Null /\ T.nodes[T.nodes[n].right].op = "*" /\ T.nodes[n].op = "*"
CanRotateRight(T, n) ==
    T.nodes[n].left # Null /\ T.nodes[T.nodes[n].left].op = "*" /\ T.nodes[n].op = "*"

\* ASTNode::notify_child_change on node p: the child with id old becomes new.
NotifyChildChange(T, p, new, old) ==
    IF T.nodes[p].right # Null /\ T.nodes[p].right = old
    THEN [T EXCEPT !.nodes[p].right = new]
    ELSE IF T.nodes[p].left # Null /\ T.nodes[p].left = old
    THEN [T EXCEPT !.nodes[p].left = new]
    ELSE T

\* Recompute depth_ of n as the rotations do: one more than its deeper child.
RotDepth(T, n) ==
    [T EXCEPT !.nodes[n].depth = 1 + Max2(GetDepth(T, T.nodes[n].left), GetDepth(T, T.nodes[n].right))]

\* A variant of right_rotate that recomputes the new subtree root's depth
\* before the depth of the node that moved below it.
RightRotateRootFirst(T, n) ==
    LET x  == T.nodes[n].left
        xr == T.nodes[x].right
        p  == T.nodes[n].parent
        T1 == [T EXCEPT !.nodes[x].right = n, !.nodes[n].left = xr, !.nodes[x].parent = p]
        T2 == IF p # Null THEN NotifyChildChange(T1, p, x, n) ELSE T1
        T3 == [T2 EXCEPT !.nodes[n].parent = x]
    IN  [t |-> RotDepth(RotDepth(T3, x), n), x |-> x]

\* ASTree::right_rotate(n): the result is [t, x] with x the new subtree root.
\* The moved grandchild keeps its old parent_ pointer, as in the code.
RightRotate(T, n) ==
    LET x  == T.nodes[n].left
        xr == T.nodes[x].right
        p  == T.nodes[n].parent
        T1 == [T EXCEPT !.nodes[x].right = n, !.nodes[n].left = xr, !.nodes[x].parent = p]
        T2 == IF p # Null THEN NotifyChildChange(T1, p, x, n) ELSE T1
        T3 == [T2 EXCEPT !.nodes[n].parent = x]
    IN  [t |-> RotDepth(RotDepth(T3, n), x), x |-> x]

\* ASTree::left_rotate(n), the mirror image.
LeftRotate(T, n) ==
    LET x  == T.nodes[n].right
        xl == T.nodes[x].left
        p  == T.nodes[n].parent
        T1 == [T EXCEPT !.nodes[x].left = n, !.nodes[n].right = xl, !.nodes[x].parent = p]
        T2 == IF p # Null THEN NotifyChildChange(T1, p, x, n) ELSE T1
        T3 == [T2 EXCEPT !.nodes[n].parent = x]
    IN  [t |-> RotDepth(RotDepth(T3, n), x), x |-> x]

\* The second rotation of a double rotation: r1, the first rotation's
\* result, is made n's left (right) child, then n is rotated.
RightRotateAfter(r1, n) == RightRotate([r1.t EXCEPT !.nodes[n].left = r1.x], n)
LeftRotateAfter(r1, n)  == LeftRotate([r1.t EXCEPT !.nodes[n].right = r1.x], n)

\* A variant of the rotation case whose double rotations do not push the
\* node left with a free slot on node_stack.
RebalanceNoPush(T, n) ==
    LET bal == GetBalance(T, n)
        l   == T.nodes[n].left
        r   == T.nodes[n].right
    IN  CASE CanRotateRight(T, n) /\ bal > 1 /\ GetBalance(T, l) > 0 ->
               RightRotate(T, n)
          [] CanRotateLeft(T, n) /\ bal < -1 /\ GetBalance(T, r) < 0 ->
               LeftRotate(T, n)
          [] CanRotateRight(T, n) /\ bal > 1 /\ GetBalance(T, l) < 0 /\ CanRotateLeft(T, l) ->
               RightRotateAfter(LeftRotate(T, l), n)
          [] CanRotateLeft(T, n) /\ bal < -1 /\ GetBalance(T, r) > 0 /\ CanRotateRight(T, r) ->
               LeftRotateAfter(RightRotate(T, r), n)
          [] OTHER -> [t |-> T, x |-> n]

\* The rotation case of reorg_from for a "*" node n whose depth_ is fresh.
\* The two double rotations push a node on node_stack first: the one that
\* is left with a free child slot.
Rebalance(T, n) ==
    LET bal == GetBalance(T, n)
        l   == T.nodes[n].left
        r   == T.nodes[n].right
    IN  CASE CanRotateRight(T, n) /\ bal > 1 /\ GetBalance(T, l) > 0 ->
               RightRotate(T, n)
          [] CanRotateLeft(T, n) /\ bal < -1 /\ GetBalance(T, r) < 0 ->
               LeftRotate(T, n)
          [] CanRotateRight(T, n) /\ bal > 1 /\ GetBalance(T, l) < 0 /\ CanRotateLeft(T, l) ->
               RightRotateAfter(LeftRotate([T EXCEPT !.stack = Append(@, n)], l), n)
          [] CanRotateLeft(T, n) /\ bal < -1 /\ GetBalance(T, r) > 0 /\ CanRotateRight(T, r) ->
               LeftRotateAfter(RightRotate([T EXCEPT !.stack = Append(@, r)], r), n)
          [] OTHER -> [t |-> T, x |-> n]

\* ASTree::reorg_from(n): fix depth_ at n (rebalancing a "*" node), then
\* continue from the parent_ of the node now in n's place; the result's x
\* is the node the climb ended at, which build_tree makes root_.
RECURSIVE ReorgFrom(_, _), ClimbFrom(_)
ReorgFrom(T, n) ==
    LET nd == T.nodes[n]
        d  == Max2(GetDepth(T, nd.left), GetDepth(T, nd.right))
    IN  ClimbFrom(IF nd.cfd THEN Rebalance([T EXCEPT !.nodes[n].depth = 1 + d], n)
                  ELSE [t |-> [T EXCEPT !.nodes[n].depth = d], x |-> n])

\* The tail of reorg_from: recurse on the parent_ of r.x, else return it.
ClimbFrom(r) ==
    LET p == r.t.nodes[r.x].parent
    IN  IF p # Null THEN ReorgFrom(r.t, p) ELSE r

\* The head of the loop body: curr_node = top(), popping full nodes.  The
\* result is [t, ub].
RECURSIVE SkipFull(_)
SkipFull(T) ==
    LET c == Last(T.stack)
    IN  IF ~IsFull(T, c) THEN [t |-> [T EXCEPT !.curr = c], ub |-> FALSE]
        ELSE IF Len(T.stack) = 1 THEN [t |-> T, ub |-> TRUE]
        ELSE SkipFull([T EXCEPT !.stack = Front(@)])

\* A variant of insert_child that fills the left slot first.
InsertChildLeftFirst(T, p, c) ==
    IF T.nodes[p].left = Null
    THEN [t |-> [T EXCEPT !.nodes[p].left = c], full |-> FALSE]
    ELSE [t |-> [T EXCEPT !.nodes[p].right = c], full |-> TRUE]

\* ASTNode::insert_child: the right slot first; TRUE when the node is now full.
InsertChild(T, p, c) ==
    IF T.nodes[p].right = Null
    THEN [t |-> [T EXCEPT !.nodes[p].right = c], full |-> FALSE]
    ELSE [t |-> [T EXCEPT !.nodes[p].left = c], full |-> TRUE]

\* The new node build_tree makes for token tok (its parent is set later).
NewNode(tok) ==
    IF tok.isOp
    THEN [leaf |-> FALSE, val |-> 0, op |-> tok.op, parent |-> Null, left |-> Null,
          right |-> Null, depth |-> IF tok.op = "*" THEN 1 ELSE 0, cfd |-> tok.op = "*"]
    ELSE [leaf |-> TRUE, val |-> tok.val, op |-> "", parent |-> Null, left |-> Null,
          right |-> Null, depth |-> 0, cfd |-> FALSE]

\* The end of the loop body: node_stack.push(new_node) for an operator.
PushIfOp(T, id) ==
    [t |-> IF T.nodes[id].leaf THEN T ELSE [T EXCEPT !.stack = Append(@, id)], ub |-> FALSE]

\* After insert_child and the climb (ro): root_ becomes the climb's end,
\* and a parent made full is popped, which is undefined on an empty stack.
SettleInsert(ro, full, id) ==
    LET T3 == [ro.t EXCEPT !.root = ro.x]
    IN  CASE ~full             -> PushIfOp(T3, id)
          [] T3.stack = <<>>   -> [t |-> T3, ub |-> TRUE]
          [] OTHER             -> PushIfOp([T3 EXCEPT !.stack = Front(@)], id)

\* The new node under curr_node c: parent_, insert_child, then reorg_from
\* for a "*" node (root_ is left alone otherwise).
AttachChild(T2, c, id, ins) ==
    SettleInsert(IF T2.nodes[id].cfd THEN ReorgFrom(ins.t, c) ELSE [t |-> ins.t, x |-> T2.root],
                 ins.full, id)

\* A variant of the node creation that numbers the new node with
\* ++node_counter_ instead of node_counter_++.
PlaceNodePreIncrement(T1, tok) ==
    LET id == T1.counter + 1
        T2 == [T1 EXCEPT !.counter = @ + 1, !.nodes = @ @@ (id :> NewNode(tok))]
        c  == T1.curr
    IN  CASE T2.root = Null -> PushIfOp([T2 EXCEPT !.root = id], id)
          [] c = Null       -> [t |-> T2, ub |-> TRUE]
          [] OTHER          -> AttachChild(T2, c, id,
                                 InsertChild([T2 EXCEPT !.nodes[id].parent = c], c, id))

\* The loop body after the stack walk: new_node gets node_counter_++; the
\* first becomes root_, every later one a child of curr_node (undefined if
\* curr_node was never set).
PlaceNode(T1, tok) ==
    LET id == T1.counter
        T2 == [T1 EXCEPT !.counter = @ + 1, !.nodes = @ @@ (id :> NewNode(tok))]
        c  == T1.curr
    IN  CASE T2.root = Null -> PushIfOp([T2 EXCEPT !.root = id], id)
          [] c = Null       -> [t |-> T2, ub |-> TRUE]
          [] OTHER          -> AttachChild(T2, c, id,
                                 InsertChild([T2 EXCEPT !.nodes[id].parent = c], c, id))

\* The rest of an iteration once SkipFull returned h.
PlaceAfterSkip(h, tok) == IF h.ub THEN h ELSE PlaceNode(h.t, tok)

\* One iteration of build_tree's loop, for token tok: [t, ub].
InsertToken(T, tok) ==
    IF T.stack = <<>> THEN PlaceNode(T, tok) ELSE PlaceAfterSkip(SkipFull(T), tok)
-----------------------------------------------------------------------------
(***************************************************************************)
(* The ASTree constructor on one expression: shunt, then build_tree one   *)
(* token per step, from the back of the postfix queue.                    *)
(***************************************************************************)
VARIABLES
    expr,    \* the expression string the computation carries
    post,    \* the result of shunt: [ok, out]
    k,       \* the number of tokens build_tree has consumed
    tree,    \* the tree value (see EmptyTree)
    phase    \* "build", "done", "rejected" (shunt threw) or "ub"

vars == <<expr, post, k, tree, phase>>

Init ==
    /\ expr \in Exprs
    /\ post = Shunt(expr)
    /\ k = 0
    /\ tree = EmptyTree
    /\ phase = IF post.ok THEN "build" ELSE "rejected"

\* The state after an iteration with result r.
TakeStep(r) ==
    /\ tree' = r.t
    /\ k' = k + 1
    /\ phase' = CASE r.ub -> "ub"
                  [] k + 1 = Len(post.out) -> "done"
                  [] OTHER -> "build"

\* One iteration of build_tree's loop.
BuildStep ==
    /\ phase = "build"
    /\ TakeStep(InsertToken(tree, post.out[Len(post.out) - k]))
    /\ UNCHANGED <<expr, post>>

Next == BuildStep

Spec == Init /\ [][Next]_vars

-----------------------------------------------------------------------------
(***************************************************************************)
(* What FHEComputer does with the tree.                                   *)
(***************************************************************************)

\* FHEComputer::eval on plaintexts: a leaf is its ciphertext, an internal
\* node without both children throws runtime_error.
RECURSIVE EvalNode(_, _)
EvalNode(T, n) ==
    LET nd == T.nodes[n]
    IN  IF nd.leaf THEN [ok |-> TRUE, val |-> LeafVal[nd.val]]
        ELSE IF nd.left = Null \/ nd.right = Null THEN [ok |-> FALSE, val |-> 0]
        ELSE LET l == EvalNode(T, nd.left)
                 r == EvalNode(T, nd.right)
             IN  IF l.ok /\ r.ok THEN [ok |-> TRUE, val |-> Apply(nd.op, l.val, r.val)]
                 ELSE [ok |-> FALSE, val |-> 0]

\* Every depth_ under n is the multiplicative depth of its subtree.
RECURSIVE DepthsExact(_, _)
DepthsExact(T, n) ==
    LET nd == T.nodes[n]
    IN  IF nd.leaf THEN nd.depth = 0
        ELSE /\ \A c \in {nd.left, nd.right} \ {Null} : DepthsExact(T, c)
             /\ nd.depth = (IF nd.op = "*" THEN 1 ELSE 0)
                           + Max2(GetDepth(T, nd.left), GetDepth(T, nd.right))
-----------------------------------------------------------------------------
(***************************************************************************)
(* Properties.                                                             *)
(***************************************************************************)

Tokens == [isOp : BOOLEAN, op : OpChars, val : {0}] \cup [isOp : BOOLEAN, op : {""}, val : Nat]

\* The variables have the shapes of the code's containers.
TypeOK ==
    /\ post.ok \in BOOLEAN /\ post.out \in Seq(Tokens)
    /\ k \in 0 .. Len(post.out)
    /\ DOMAIN tree.nodes = 0 .. tree.counter - 1
    /\ tree.root \in {Null} \cup DOMAIN tree.nodes
    /\ tree.stack \in Seq(DOMAIN tree.nodes)
    /\ phase \in {"build", "done", "rejected", "ub"}

\* On every well-formed expression shunt agrees with the reference grammar
\* (it accepts it) and its postfix queue means what the expression means:
\* precedence and left associativity of "+", "-" and "*" are what the
\* operator-stack loop implements.  The converse is not claimed: shunt
\* also accepts strings the grammar rejects (ast.cpp:340), which the
\* malformed_expression run follows into build_tree.
ShuntMatchesGrammar ==
    LET r == Ref(expr)
        q == EvalPostfix(post.out, 1, <<>>)
    IN  /\ post.ok = r.ok
        /\ post.ok => q.ok /\ q.val = r.val

\* The tree build_tree leaves evaluates (FHEComputer::eval) to the value of
\* the postfix queue it was built from: the rotations of reorg_from and the
\* node_stack adjustments around them never misplace a subtree.
TreeMatchesPostfix ==
    phase = "done" =>
        EvalNode(tree, tree.root) = EvalPostfix(post.out, 1, <<>>)

\* Every depth_ of the finished tree is its subtree's multiplicative depth:
\* FHEComputer::eval aligns ciphertext levels by these numbers, and
\* difficulty() (the root's depth_) is what block validation counts.
DepthsMatchTree == phase = "done" => DepthsExact(tree, tree.root)

\* build_tree never reads top() of, or pops, an empty node_stack.
NoUndefinedBehaviour == phase # "ub"
=============================================================================
