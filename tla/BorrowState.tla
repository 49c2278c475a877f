----------------------------- MODULE BorrowState -----------------------------
(***************************************************************************)
(* The abstract state of the borrow checker: what every local of one       *)
(* function may be at a program point, and how often every root is held.   *)
(*                                                                         *)
(* A local is a set of modes: uninitialised ("uninit"), the owner of its   *)
(* own slot ("slot"), a view of other locals ("alias").  More than one     *)
(* mode means that the paths joined here disagree.  The bit sets of the    *)
(* code are sets of locals.                                                *)
(***************************************************************************)
EXTENDS FiniteSets, Naturals

CONSTANT Locals     \* the locals of the function

ASSUME LocalsAssumption == IsFiniteSet(Locals)

Modes == {"uninit", "slot", "alias"}

LocalState == [mode : SUBSET Modes, roots : SUBSET Locals, direct : SUBSET Locals]

State == [locals : [Locals -> LocalState], counts : [Locals -> Nat]]

Uninit == [mode |-> {"uninit"}, roots |-> {}, direct |-> {}]

Slot == [mode |-> {"slot"}, roots |-> {}, direct |-> {}]

AliasOf(roots, direct) ==
    [mode |-> {"alias"}, roots |-> roots, direct |-> direct]

DefinitelyUninit(local) == local.mode = {"uninit"}

\* The locals whose slots l may denote.
RootsOf(locals, l) ==
    (IF "slot" \in locals[l].mode THEN {l} ELSE {})
        \cup (IF "alias" \in locals[l].mode THEN locals[l].roots ELSE {})

Holders(locals, root) == {l \in Locals : root \in RootsOf(locals, l)}

\* recompute_root_ref_counts: the cache built from nothing.
Recounted(locals) ==
    [locals |-> locals,
     counts |-> [r \in Locals |-> Cardinality(Holders(locals, r))]]

EffectiveRoots(state, l) == RootsOf(state.locals, l)

NewUninitialized ==
    [locals |-> [l \in Locals |-> Uninit], counts |-> [l \in Locals |-> 0]]

\* The cache is adjusted by the roots that l gives up and those it takes.
UpdateLocal(state, l, new) ==
    LET before == RootsOf(state.locals, l)
        locals == [state.locals EXCEPT ![l] = new]
        after  == RootsOf(locals, l)
        Released(r) == IF r \in before /\ state.counts[r] > 0
                         THEN state.counts[r] - 1 ELSE state.counts[r]
    IN  [locals |-> locals,
         counts |-> [r \in Locals |->
                        Released(r) + (IF r \in after THEN 1 ELSE 0)]]

InitializeParameters(params) ==
    Recounted([l \in Locals |-> IF l \in params THEN Slot ELSE Uninit])

Join(left, right) ==
    Recounted([l \in Locals |->
        [mode   |-> left.locals[l].mode \cup right.locals[l].mode,
         roots  |-> left.locals[l].roots \cup right.locals[l].roots,
         direct |-> left.locals[l].direct \cup right.locals[l].direct]])

\* A view whose roots are all gone is what is left of its other modes.
WithRoots(local, roots) ==
    IF "alias" \notin local.mode THEN local
    ELSE IF roots # {}
      THEN [local EXCEPT !.roots = roots, !.direct = @ \cap roots]
    ELSE IF "slot" \in local.mode THEN Slot ELSE Uninit

\* A plausible bug: the cache is left as it was.
KillWithoutRecount(state, visible) ==
    [state EXCEPT !.locals = [l \in Locals |->
        IF l \notin visible THEN Uninit
        ELSE WithRoots(@[l], @[l].roots \cap visible)]]

\* Locals of inner regions end where the region does, and so do the views of
\* them.  The cache is rebuilt only if something changed.
KillInvisible(state, visible) ==
    LET locals == [l \in Locals |->
            IF l \notin visible THEN Uninit
            ELSE WithRoots(state.locals[l], state.locals[l].roots \cap visible)]
    IN  IF locals = state.locals THEN state ELSE Recounted(locals)

\* A plausible bug: the views of what was given away live on.
InvalidateRootsOnly(state, gone) ==
    Recounted([l \in Locals |-> IF l \in gone THEN Uninit ELSE state.locals[l]])

\* The roots in gone gave their values away: they and their views end.
Invalidate(state, gone) ==
    Recounted([l \in Locals |->
        IF l \in gone THEN Uninit
        ELSE IF state.locals[l].roots \cap gone = {} THEN state.locals[l]
        ELSE WithRoots(state.locals[l], state.locals[l].roots \ gone)])

\* No local is both uninitialised and something else, and the roots are those
\* of a view.
Settled(local) ==
    /\ local.mode = {"uninit"} \/ local.mode \in {{"slot"}, {"alias"}, {"slot", "alias"}}
    /\ (local.roots # {}) <=> ("alias" \in local.mode)
    /\ local.direct \subseteq local.roots

\* The cache holds what a recount would give.
Exact(state) == state.counts = Recounted(state.locals).counts

Sound(state) == (\A l \in Locals : Settled(state.locals[l])) /\ Exact(state)
=============================================================================
