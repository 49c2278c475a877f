---------------------------- MODULE BorrowTransfer ----------------------------
(***************************************************************************)
(* The transfer rules of the borrow checker: what one statement of one     *)
(* block requires of the state and makes of it.                            *)
(*                                                                         *)
(* prog is the function under analysis, its blocks numbered in             *)
(* breadth-first order.  layout, may and must are the facts computed       *)
(* before the analysis: a position ("order key") for every statement and   *)
(* terminator, the first write and the last use of every local, and the    *)
(* locals that some path or every path from a block uses.                  *)
(***************************************************************************)
EXTENDS BorrowState, Sequences

CONSTANTS Params,   \* the parameters, initialised on entry
          Mutable,  \* the locals that may be written to
          Temps,    \* compiler temporaries: loaded by value, not user bindings
          None

ASSUME BindingsAssumption ==
    /\ Params \subseteq Locals
    /\ Mutable \subseteq Locals
    /\ Temps \subseteq Mutable \ Params
    /\ None \notin Locals

VARIABLES prog, layout, may, must

Blocks == DOMAIN prog.stmts

Effects == {"SharedBorrow", "MutableBorrow", "MayConsumeShared", "MayConsumeMutable"}

Optional(effect) == effect \in {"MayConsumeShared", "MayConsumeMutable"}

Fallback(effect) ==
    CASE effect = "MayConsumeShared"  -> "SharedBorrow"
      [] effect = "MayConsumeMutable" -> "MutableBorrow"
      [] OTHER -> effect

-----------------------------------------------------------------------------
(* The layout of a function *)

Written(s) == {s.to} \ {None}

Loaded(s) == ({s.from} \ {None}) \cup {s.args[i].local : i \in DOMAIN s.args}

\* The terminator of a block has the position after its last statement.
Positions(p, b) == 1 .. Len(p.stmts[b]) + 1

UsedAt(p, b, i) ==
    IF i > Len(p.stmts[b]) THEN p.reads[b]
    ELSE Written(p.stmts[b][i]) \cup Loaded(p.stmts[b][i])

MaxOf(S) == IF S = {} THEN 0 ELSE CHOOSE n \in S : \A o \in S : o <= n

MinOf(S) == IF S = {} THEN 0 ELSE CHOOSE n \in S : \A o \in S : n <= o

\* A local is visible in the region that declares it and the regions inside.
VisibilityMask(p, b) ==
    LET ancestors[r \in DOMAIN p.parent] ==
            {r} \cup (IF p.parent[r] = r THEN {} ELSE ancestors[p.parent[r]])
    IN  {l \in Locals : p.declared[l] \in ancestors[p.region[b]]}

FunctionLayout(p) ==
    LET blocks == DOMAIN p.stmts
        start[b \in blocks] ==
            IF b = 1 THEN 0 ELSE start[b - 1] + Len(p.stmts[b - 1]) + 1
        At(b, l) == {start[b] + i : i \in {j \in Positions(p, b) : l \in UsedAt(p, b, j)}}
        WrittenAt(b, l) ==
            {start[b] + i : i \in {j \in DOMAIN p.stmts[b] : l \in Written(p.stmts[b][j])}}
        most == [b \in blocks |-> [l \in Locals |-> MaxOf(At(b, l))]]
    IN  [start |-> start,
         most  |-> most,
         first |-> [l \in Locals |-> MinOf(UNION {WrittenAt(b, l) : b \in blocks})],
         last  |-> [l \in Locals |-> MaxOf({most[b][l] : b \in blocks})],
         visible |-> [b \in blocks |-> VisibilityMask(p, b)]]

Visible(b) == layout.visible[b]

Expired(l, key) == layout.last[l] > 0 /\ layout.last[l] < key

FutureUse(b, l, key) ==
    LET succ == prog.succ[b]
    IN  IF layout.most[b][l] > key THEN "must"
        ELSE IF \A i \in DOMAIN succ : l \notin may[succ[i]] THEN "none"
        ELSE IF \A i \in DOMAIN succ : l \in must[succ[i]] THEN "must" ELSE "may"

\* Only roots that nothing uses again give their values away.
MoveDecision(b, roots, key) ==
    LET uses == {FutureUse(b, r, key) : r \in roots}
    IN  IF "may" \in uses THEN "inconsistent"
        ELSE IF uses = {"none"} THEN "move" ELSE "borrow"

-----------------------------------------------------------------------------
(* Conflicts between an access and the views that are still active *)

IsAlias(state, l) == "alias" \in state.locals[l].mode

\* A plausible bug: a view is done with after its last use in block order.
DoneInLinearOrder(b, l, key, actor) == FALSE

\* A use in a later iteration counts for accesses of the source program, not
\* for those of the temporaries the compiler introduced.
UsedInLaterIteration(b, l, key, actor) ==
    /\ actor \notin Temps
    /\ FutureUse(b, l, key) # "none"

Active(state, b, key, root, l, actor, strict) ==
    LET strictly == strict /\ (root \in state.locals[l].direct \/ l \in Mutable)
    IN  IF layout.last[l] > 0
          THEN \/ ~Expired(l, key)
               \/ IsAlias(state, l)
                  /\ (UsedInLaterIteration(b, l, key, actor) \/ strictly)
          ELSE IsAlias(state, l) /\ (IF strict THEN strictly ELSE l \in Mutable)

NeverRead(l) == layout.first[l] > 0 /\ layout.first[l] = layout.last[l]

\* check_shared_access: no root is borrowed mutably by another binding.
SharedAllowed(state, b, key, roots, actor, tracker) ==
    \A root \in roots :
      /\ tracker[root] # "mutable"
      /\ ~\E l \in (Mutable \ Temps) \ {actor} :
            /\ IsAlias(state, l)
            /\ Active(state, b, key, root, l, actor, FALSE) \/ NeverRead(l)
            /\ root \in EffectiveRoots(state, l)

\* active_alias_count_for_root: who holds the root at this moment.
ActiveHolders(state, b, key, root, actor, hint, strict) ==
    LET throughView == actor # root /\ IsAlias(state, actor)
                         /\ root \in state.locals[actor].roots
    IN  {l \in Holders(state.locals, root) :
           /\ ~(throughView /\ l = root)
           /\ l = actor \/ Active(state, b, key, root, l, hint, strict)}

\* check_mutable_access: the acting binding (hint, or the root itself) is the
\* only one that holds each root.
MutableAllowed(state, b, key, roots, hint, tracker, priorShared, writable, strict) ==
    \A root \in roots :
      /\ tracker[root] # "mutable"
      /\ tracker[root] = "shared" => priorShared
      /\ writable => root \in Mutable
      /\ Cardinality(ActiveHolders(state, b, key, root,
                                   IF hint = None THEN root ELSE hint, hint, strict)) <= 1

NoAccess == [l \in Locals |-> "none"]

\* StatementAccessTracker::record
Record(tracker, roots, access) ==
    [l \in Locals |-> IF l \in roots /\ tracker[l] # "mutable" THEN access ELSE tracker[l]]

Readable(state, b, key, l) ==
    /\ ~DefinitelyUninit(state.locals[l])
    /\ SharedAllowed(state, b, key, EffectiveRoots(state, l), l, NoAccess)

-----------------------------------------------------------------------------
(* Assignments *)

\* A place is a view of what it holds; a temporary is loaded by value, and is
\* a view only where it is one itself.
ViewedBy(state, from) ==
    IF from = None \/ (from \in Temps /\ ~IsAlias(state, from)) THEN {}
    ELSE EffectiveRoots(state, from)

DirectlyViewed(state, from) ==
    IF from \notin Temps /\ "slot" \in state.locals[from].mode THEN {from} ELSE {}

\* A fresh mutable binding takes over values that nothing uses again.
AssignMoves(state, b, key, s) ==
    LET roots == ViewedBy(state, s.from)
    IN  /\ roots # {}
        /\ DefinitelyUninit(state.locals[s.to])
        /\ s.to \in Mutable
        /\ roots \subseteq Mutable
        /\ MoveDecision(b, roots, key) = "move"

\* The value that s.to is bound to.
Bound(state, b, key, s) ==
    IF ViewedBy(state, s.from) = {} \/ AssignMoves(state, b, key, s) THEN Slot
    ELSE AliasOf(ViewedBy(state, s.from), DirectlyViewed(state, s.from))

AssignAllowed(state, b, key, s) ==
    LET roots == ViewedBy(state, s.from)
        old   == state.locals[s.to]
    IN  /\ s.from # None => Readable(state, b, key, s.from)
        /\ IF DefinitelyUninit(old)
             THEN Bound(state, b, key, s) # Slot /\ s.to \in Mutable \ Temps
                    => MutableAllowed(state, b, key, roots, s.to, NoAccess, TRUE, FALSE, FALSE)
             ELSE MutableAllowed(state, b, key, EffectiveRoots(state, s.to), s.to,
                                 NoAccess, TRUE, TRUE, FALSE)

\* A write through a view leaves it the view it is; a write to a slot rebinds.
Assigned(state, b, key, s) ==
    LET old   == state.locals[s.to]
        bound == Bound(state, b, key, s)
        moved == IF AssignMoves(state, b, key, s)
                   THEN Invalidate(state, ViewedBy(state, s.from)) ELSE state
    IN  IF DefinitelyUninit(old) \/ old.mode = {"slot"}
          THEN UpdateLocal(moved, s.to, bound)
        ELSE IF old.mode = {"alias"} THEN state
        ELSE UpdateLocal(state, s.to, [mode   |-> old.mode,
                                       roots  |-> old.roots \cup bound.roots,
                                       direct |-> old.direct \cup bound.direct])

-----------------------------------------------------------------------------
(* Aggregates: the place stored in a literal must be given to it *)

PackAllowed(state, b, key, s) ==
    /\ Readable(state, b, key, s.from)
    /\ AssignAllowed(state, b, key, [s EXCEPT !.from = None])
    /\ LET stored == Assigned(state, b, key, [s EXCEPT !.from = None])
       IN  /\ ~DefinitelyUninit(stored.locals[s.from])
           /\ MoveDecision(b, EffectiveRoots(stored, s.from), key) = "move"

Packed(state, b, key, s) ==
    LET stored == Assigned(state, b, key, [s EXCEPT !.from = None])
    IN  Invalidate(stored, EffectiveRoots(stored, s.from))

-----------------------------------------------------------------------------
(* Statements without arguments *)

StatementAllowed(state, b, key, s) ==
    CASE s.kind = "eval"   -> Readable(state, b, key, s.from)
      [] s.kind = "assign" -> AssignAllowed(state, b, key, s)
      [] s.kind = "pack"   -> PackAllowed(state, b, key, s)
      [] s.kind = "write"  ->
           /\ ~DefinitelyUninit(state.locals[s.to])
           /\ MutableAllowed(state, b, key, EffectiveRoots(state, s.to), s.to,
                             NoAccess, TRUE, TRUE, FALSE)

AfterStatement(state, b, key, s) ==
    CASE s.kind = "assign" -> Assigned(state, b, key, s)
      [] s.kind = "pack"   -> Packed(state, b, key, s)
      [] OTHER -> state

-----------------------------------------------------------------------------
(* Calls.  The arguments are read first, then accessed one by one, then the *)
(* result becomes a view of the arguments it may alias.                     *)

ArgumentRoots(state, s, i) == EffectiveRoots(state, s.args[i].local)

ArgumentsReadable(state, b, key, s) ==
    \A i \in DOMAIN s.args :
      IF s.args[i].effect = "SharedBorrow"
        THEN Readable(state, b, key, s.args[i].local)
        ELSE ~DefinitelyUninit(state.locals[s.args[i].local])

ArgumentsRead(state, s) ==
    Record(NoAccess, UNION {ArgumentRoots(state, s, i) :
                              i \in {j \in DOMAIN s.args : s.args[j].effect = "SharedBorrow"}},
           "shared")

\* An argument that the result may view, or that another argument uses too,
\* is not given away.
EffectiveEffect(s, roots, i) ==
    IF /\ Optional(s.args[i].effect)
       /\ \/ s.to # None /\ i \in s.ret
          \/ \E j \in DOMAIN s.args \ {i} : roots[i] \cap roots[j] # {}
      THEN Fallback(s.args[i].effect) ELSE s.args[i].effect

\* The access that argument i makes: an optional transfer that cannot move
\* falls back to a borrow.
ArgumentAccess(state, b, key, s, roots, i) ==
    LET effect == EffectiveEffect(s, roots, i)
        local  == s.args[i].local
    IN  IF ~Optional(effect) THEN effect
        ELSE IF MoveDecision(b, EffectiveRoots(state, local), key) = "move" THEN "move"
        ELSE Fallback(effect)

ArgumentAllowed(state, b, key, s, roots, i, tracker) ==
    LET local  == s.args[i].local
        access == ArgumentAccess(state, b, key, s, roots, i)
        held   == EffectiveRoots(state, local)
        \* A downgraded argument is read as the place it is, one that cannot
        \* move as the root itself.
        actor  == IF Optional(EffectiveEffect(s, roots, i)) THEN None ELSE local
    IN  /\ ~DefinitelyUninit(state.locals[local])
        /\ CASE access = "SharedBorrow" ->
                  s.args[i].effect # "SharedBorrow"
                    => SharedAllowed(state, b, key, held, actor, tracker)
             [] access = "MutableBorrow" ->
                  MutableAllowed(state, b, key, held, None, tracker, FALSE, TRUE, FALSE)
             [] access = "move" ->
                  MutableAllowed(state, b, key, held, None, tracker, FALSE, FALSE, TRUE)

ArgumentTracked(state, b, key, s, roots, i, tracker) ==
    Record(tracker, EffectiveRoots(state, s.args[i].local),
           IF ArgumentAccess(state, b, key, s, roots, i) = "SharedBorrow"
             THEN "shared" ELSE "mutable")

AfterArgument(state, b, key, s, roots, i) ==
    IF ArgumentAccess(state, b, key, s, roots, i) = "move"
      THEN Invalidate(state, EffectiveRoots(state, s.args[i].local)) ELSE state

AfterCall(state, s, roots) ==
    LET viewed == UNION {roots[i] : i \in s.ret}
    IN  IF s.to = None THEN state
        ELSE UpdateLocal(state, s.to, IF viewed = {} THEN Slot ELSE AliasOf(viewed, {}))
=============================================================================
