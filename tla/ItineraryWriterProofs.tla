------------------------ MODULE ItineraryWriterProofs ------------------------
(***************************************************************************)
(* That the writers of a plan keep its versions in one line, for any number*)
(* of writers of each kind, any populations and any number of restarts.    *)
(***************************************************************************)
EXTENDS ItineraryWriter, TLAPS

----------------------------------------------------------------------------
(* The inductive invariant: first what holds of every population. *)

Working == {"checked", "committed", "captured", "numbered", "verify", "undo"}
Inside == Working \cup {"bound"}
Beginning == {"idle", "ready", "bound", "checked"}

(* Which stages a kind of writer has. *)
StagesOfKind ==
  /\ \A w \in Selections : pc[w] \in {"idle", "ready", "checked"} \cup Ended
  /\ \A w \in Restores : pc[w] \in {"idle"} \cup Ended
  /\ \A w \in Patches : pc[w] \notin {"verify", "undo"}

LeaseHeld == \A w \in Leased : pc[w] \in Inside => lease = w

NotSavedYet ==
  \A w \in Writers :
    pc[w] \in Beginning \cup {"committed", "captured", "numbered", "refused", "absent"} =>
      w \notin saved

(* The base of a writer under the lease is there to be returned to. *)
BaseIsThere ==
  /\ First \in saved
  /\ \A w \in Leased : pc[w] \in Working => base[w] \in saved /\ base[w] # w

(* A newest version can always be found, also when rows are taken away. *)
HasNewest ==
  \A S \in SUBSET saved : S # {} => \E v \in S : \A u \in S : number[u] <= number[v]

AllInv == /\ TypeOK /\ StagesOfKind /\ LeaseHeld /\ NotSavedYet
          /\ BaseIsThere /\ HasNewest /\ ActiveExists

(* ... then what holds while every writer takes the lease. *)

(* The base checked at the beginning stays the active version to the end. *)
BaseIsActive ==
  \A w \in Leased :
    /\ \/ pc[w] \in {"checked", "committed", "captured", "numbered"}
       \/ pc[w] = "undo" /\ w \notin saved
       => base[w] = active
    /\ pc[w] = "verify" => w \in saved
    /\ pc[w] \in {"verify", "undo"} /\ w \in saved => active = w

(* The base of a version is there, and is the newest of the older ones. *)
BaseIsPrevious ==
  \A v \in saved \ {First} :
    /\ base[v] \in saved /\ number[base[v]] < number[v]
    /\ \A u \in saved \ {base[v]} : number[u] < number[v] => number[u] < number[base[v]]

EditsKept == \A v \in saved \ {First} : snap[base[v]] \cup {v} \subseteq snap[v]

Newest == \A v \in saved \ {active} : number[v] < number[active]

(* What is captured and drawn is still true when it is saved. *)
DraftIsFresh ==
  /\ snap[active] \subseteq live
  /\ \A w \in Leased :
       /\ pc[w] \in {"committed", "captured", "numbered"} => w \in live
       /\ pc[w] \in {"captured", "numbered"} => draft[w] = live
       /\ pc[w] = "numbered" => drawn[w] = number[active] + 1

(* An edit gets into somebody else's version only after it was accepted. *)
NoTrace ==
  \A w \in Leased :
    /\ pc[w] \in Beginning \/ patch[w] = "rolled_back" => w \notin live
    /\ pc[w] \in Beginning \cup Working \/ patch[w] = "rolled_back" =>
         \A v \in saved \ {w} : w \notin snap[v]
    /\ patch[w] = "rolled_back" => pc[w] = "failed" /\ w \notin saved

LeasedInv == /\ BaseIsActive /\ BaseIsPrevious /\ EditsKept /\ Newest
             /\ DraftIsFresh /\ NoTrace

IInv == AllInv /\ (LeasedOnly => LeasedInv)

(* What the abstract history sees of the rows. *)
Parents == [v \in saved |-> IF v = First THEN First ELSE base[v]]

----------------------------------------------------------------------------
(* The newest version: what NewestNumber returns, and that one more row or *)
(* fewer rows leave a newest one.                                          *)

LEMMA NewestIsReached ==
  ASSUME AllInv
  PROVE  /\ NewestNumber \in Nat
         /\ \A v \in saved : number[v] <= NewestNumber
         /\ \E v \in saved : number[v] = NewestNumber
<1>1. PICK v \in saved : \A u \in saved : number[u] <= number[v]
  BY DEF AllInv, HasNewest, ActiveExists
<1>2. number[v] \in {number[u] : u \in saved} /\ \A u \in saved : number[u] <= number[v]
  BY <1>1
<1>3. /\ NewestNumber \in {number[u] : u \in saved}
      /\ \A u \in saved : number[u] <= NewestNumber
  BY <1>2 DEF NewestNumber
<1>4. \A u \in saved : number[u] \in Nat
  BY DEF AllInv, TypeOK
<1> QED BY <1>3, <1>4

LEMMA OneMoreKeepsNewest ==
  ASSUME AllInv, NEW w \in Versions, saved' = saved \cup {w}, number' \in [Versions -> Nat],
         \A v \in Versions \ {w} : number'[v] = number[v]
  PROVE  HasNewest'
<1> SUFFICES ASSUME NEW T \in SUBSET (saved \cup {w}), T # {}
             PROVE  \E v \in T : \A u \in T : number'[u] <= number'[v]
  BY DEF HasNewest
<1>1. \A u \in T \ {w} : number'[u] = number[u]
  BY DEF AllInv, TypeOK
<1>2. \A u \in T : number'[u] \in Nat
  BY DEF AllInv, TypeOK
<1>3. CASE T \subseteq {w}
  BY <1>2, <1>3
<1>4. CASE ~(T \subseteq {w})
  <2>1. PICK v \in T \ {w} : \A u \in T \ {w} : number[u] <= number[v]
    BY <1>4 DEF AllInv, HasNewest
  <2>2. CASE w \in T /\ number'[v] <= number'[w]
    BY <1>1, <1>2, <2>1, <2>2
  <2>3. CASE w \notin T \/ ~(number'[v] <= number'[w])
    BY <1>1, <1>2, <2>1, <2>3
  <2> QED BY <2>2, <2>3
<1> QED BY <1>3, <1>4

LEMMA NobodyMoves ==
  ASSUME AllInv, UNCHANGED vars
  PROVE  AllInv'
BY DEF AllInv, TypeOK, StagesOfKind, LeaseHeld, NotSavedYet, BaseIsThere, HasNewest,
       ActiveExists, vars, dataVars, rowVars, ownVars

LEMMA InitIInv == Init => IInv
<1> SUFFICES ASSUME Init PROVE IInv
  OBVIOUS
<1>1. TypeOK
  BY WritersAreDistinct DEF Init, TypeOK, Versions, Stages, Ended
<1>2. StagesOfKind /\ LeaseHeld /\ BaseIsThere
  BY WritersAreDistinct
     DEF Init, StagesOfKind, LeaseHeld, BaseIsThere, Inside, Working, Ended, Writers, Leased
<1>3. NotSavedYet /\ HasNewest /\ ActiveExists
  BY WritersAreDistinct DEF Init, NotSavedYet, HasNewest, ActiveExists, Versions
<1>4. BaseIsActive /\ BaseIsPrevious /\ EditsKept /\ Newest /\ DraftIsFresh /\ NoTrace
  BY WritersAreDistinct
     DEF Init, BaseIsActive, BaseIsPrevious, EditsKept, Newest, DraftIsFresh, NoTrace, Versions,
         Writers, Leased
<1> QED BY <1>1, <1>2, <1>3, <1>4 DEF IInv, AllInv, LeasedInv

----------------------------------------------------------------------------
(* The general part, action by action. *)

LEMMA KindsOfWriters ==
  /\ Patches \subseteq Leased /\ Mutations \subseteq Leased /\ Leased = Patches \cup Mutations
  /\ Writers = Leased \cup Selections \cup Restores
  /\ Patches \cap Mutations = {} /\ Leased \cap (Selections \cup Restores) = {}
  /\ Selections \cap Restores = {} /\ First \notin Writers /\ Nobody \notin Writers
  /\ Versions = Writers \cup {First}
BY WritersAreDistinct DEF Leased, Writers, Versions

(* A step that changes neither the rows of versions nor the active one     *)
(* can disturb only the types and who is where.                            *)
LEMMA RowsUnchangedKeep ==
  ASSUME AllInv, UNCHANGED <<rowVars, active>>
  PROVE  HasNewest' /\ ActiveExists'
BY DEF AllInv, HasNewest, ActiveExists, rowVars

LEMMA ReadPlanKeeps ==
  ASSUME AllInv, NEW w \in Writers, ReadPlan(w)
  PROVE  AllInv'
<1> USE KindsOfWriters
<1>1. TypeOK'
  BY DEF AllInv, TypeOK, ReadPlan, Goto, Stages, Ended, dataVars, rowVars
<1>2. StagesOfKind' /\ LeaseHeld'
  BY DEF AllInv, TypeOK, StagesOfKind, LeaseHeld, ReadPlan, Goto, Inside, Working, Ended
<1>3. NotSavedYet' /\ BaseIsThere'
  BY DEF AllInv, TypeOK, StagesOfKind, NotSavedYet, BaseIsThere, ActiveExists, ReadPlan,
       Goto, Working, Beginning, dataVars, rowVars
<1> QED BY <1>1, <1>2, <1>3, RowsUnchangedKeep DEF AllInv, ReadPlan, dataVars, rowVars

LEMMA TakeLeaseKeeps ==
  ASSUME AllInv, NEW w \in Writers, TakeLease(w)
  PROVE  AllInv'
<1> USE KindsOfWriters
<1>1. TypeOK'
  BY DEF AllInv, TypeOK, TakeLease, Goto, Stages, Ended, dataVars, rowVars, ownVars
<1>2. StagesOfKind' /\ LeaseHeld'
  BY DEF AllInv, TypeOK, StagesOfKind, LeaseHeld, TakeLease, Goto, Inside, Working,
       Ended
<1>3. NotSavedYet' /\ BaseIsThere'
  BY DEF AllInv, TypeOK, StagesOfKind, NotSavedYet, BaseIsThere, ActiveExists,
       TakeLease, Goto, Working, Beginning, dataVars, rowVars, ownVars
<1> QED BY <1>1, <1>2, <1>3, RowsUnchangedKeep DEF AllInv, TakeLease, dataVars, rowVars

LEMMA CheckBaseKeeps ==
  ASSUME AllInv, NEW w \in Writers, CheckBase(w)
  PROVE  AllInv'
<1> USE KindsOfWriters
<1>1. TypeOK'
  BY DEF AllInv, TypeOK, CheckBase, End, Goto, Stages, Ended, dataVars, rowVars
<1>2. StagesOfKind' /\ LeaseHeld'
  BY DEF AllInv, TypeOK, StagesOfKind, LeaseHeld, CheckBase, End, Goto, Inside, Working,
       Ended
<1>3. NotSavedYet' /\ BaseIsThere'
  BY DEF AllInv, TypeOK, StagesOfKind, NotSavedYet, BaseIsThere, ActiveExists,
       CheckBase, End, Goto, Working, Beginning, dataVars, rowVars
<1> QED BY <1>1, <1>2, <1>3, RowsUnchangedKeep DEF AllInv, CheckBase, dataVars, rowVars

LEMMA RejectPatchKeeps ==
  ASSUME AllInv, NEW w \in Writers, RejectPatch(w)
  PROVE  AllInv'
<1> USE KindsOfWriters
<1>1. TypeOK'
  BY DEF AllInv, TypeOK, RejectPatch, End, Goto, Stages, Ended, rowVars, ownVars
<1>2. StagesOfKind' /\ LeaseHeld'
  BY DEF AllInv, TypeOK, StagesOfKind, LeaseHeld, RejectPatch, End, Goto, Inside,
       Working, Ended
<1>3. NotSavedYet' /\ BaseIsThere'
  BY DEF AllInv, TypeOK, StagesOfKind, NotSavedYet, BaseIsThere, ActiveExists,
       RejectPatch, End, Goto, Working, Beginning, rowVars, ownVars
<1> QED BY <1>1, <1>2, <1>3, RowsUnchangedKeep DEF AllInv, RejectPatch, rowVars

LEMMA CommitOperationsKeeps ==
  ASSUME AllInv, NEW w \in Writers, CommitOperations(w)
  PROVE  AllInv'
<1> USE KindsOfWriters
<1>1. TypeOK'
  BY DEF AllInv, TypeOK, CommitOperations, Goto, Stages, Ended, rowVars, ownVars
<1>2. StagesOfKind' /\ LeaseHeld'
  BY DEF AllInv, TypeOK, StagesOfKind, LeaseHeld, CommitOperations, Goto, Inside,
       Working, Ended
<1>3. NotSavedYet' /\ BaseIsThere'
  BY DEF AllInv, TypeOK, StagesOfKind, NotSavedYet, BaseIsThere, ActiveExists,
       CommitOperations, Goto, Working, Beginning, rowVars, ownVars
<1> QED BY <1>1, <1>2, <1>3, RowsUnchangedKeep DEF AllInv, CommitOperations, rowVars

LEMMA CaptureSnapshotKeeps ==
  ASSUME AllInv, NEW w \in Writers, CaptureSnapshot(w)
  PROVE  AllInv'
<1> USE KindsOfWriters
<1>1. TypeOK'
  BY DEF AllInv, TypeOK, CaptureSnapshot, Goto, Stages, Ended, dataVars, rowVars
<1>2. StagesOfKind' /\ LeaseHeld'
  BY DEF AllInv, TypeOK, StagesOfKind, LeaseHeld, CaptureSnapshot, Goto, Inside,
       Working, Ended
<1>3. NotSavedYet' /\ BaseIsThere'
  BY DEF AllInv, TypeOK, StagesOfKind, NotSavedYet, BaseIsThere, ActiveExists,
       CaptureSnapshot, Goto, Working, Beginning, dataVars, rowVars
<1> QED BY <1>1, <1>2, <1>3, RowsUnchangedKeep DEF AllInv, CaptureSnapshot, dataVars,
     rowVars

LEMMA NextVersionNumberKeeps ==
  ASSUME AllInv, NEW w \in Writers, NextVersionNumber(w)
  PROVE  AllInv'
<1> USE KindsOfWriters
<1>1. TypeOK'
  BY NewestIsReached DEF AllInv, TypeOK, NextVersionNumber, Goto, Stages, Ended,
       dataVars, rowVars
<1>2. StagesOfKind' /\ LeaseHeld'
  BY DEF AllInv, TypeOK, StagesOfKind, LeaseHeld, NextVersionNumber, Goto, Inside,
       Working, Ended
<1>3. NotSavedYet' /\ BaseIsThere'
  BY DEF AllInv, TypeOK, StagesOfKind, NotSavedYet, BaseIsThere, ActiveExists,
       NextVersionNumber, Goto, Working, Beginning, dataVars, rowVars
<1> QED BY <1>1, <1>2, <1>3, RowsUnchangedKeep DEF AllInv, NextVersionNumber, dataVars,
     rowVars

LEMMA FailPatchKeeps ==
  ASSUME AllInv, NEW w \in Writers, FailPatch(w)
  PROVE  AllInv'
<1> USE KindsOfWriters
<1>1. TypeOK'
  BY DEF AllInv, TypeOK, FailPatch, End, Goto, Stages, Ended, dataVars, rowVars, ownVars
<1>2. StagesOfKind' /\ LeaseHeld'
  BY DEF AllInv, TypeOK, StagesOfKind, LeaseHeld, FailPatch, End, Goto, Inside, Working,
       Ended
<1>3. NotSavedYet' /\ BaseIsThere'
  BY DEF AllInv, TypeOK, StagesOfKind, NotSavedYet, BaseIsThere, ActiveExists,
       FailPatch, End, Goto, Working, Beginning, dataVars, rowVars, ownVars
<1> QED BY <1>1, <1>2, <1>3, RowsUnchangedKeep DEF AllInv, FailPatch, dataVars, rowVars

LEMMA AcceptMutationKeeps ==
  ASSUME AllInv, NEW w \in Writers, AcceptMutation(w)
  PROVE  AllInv'
<1> USE KindsOfWriters
<1>1. TypeOK'
  BY DEF AllInv, TypeOK, AcceptMutation, End, Goto, Stages, Ended, dataVars, rowVars,
       ownVars
<1>2. StagesOfKind' /\ LeaseHeld'
  BY DEF AllInv, TypeOK, StagesOfKind, LeaseHeld, AcceptMutation, End, Goto, Inside,
       Working, Ended
<1>3. NotSavedYet' /\ BaseIsThere'
  BY DEF AllInv, TypeOK, StagesOfKind, NotSavedYet, BaseIsThere, ActiveExists,
       AcceptMutation, End, Goto, Working, Beginning, dataVars, rowVars, ownVars
<1> QED BY <1>1, <1>2, <1>3, RowsUnchangedKeep DEF AllInv, AcceptMutation, dataVars,
     rowVars

LEMMA RejectMutationKeeps ==
  ASSUME AllInv, NEW w \in Writers, RejectMutation(w)
  PROVE  AllInv'
<1> USE KindsOfWriters
<1>1. TypeOK'
  BY DEF AllInv, TypeOK, RejectMutation, Goto, Stages, Ended, dataVars, rowVars, ownVars
<1>2. StagesOfKind' /\ LeaseHeld'
  BY DEF AllInv, TypeOK, StagesOfKind, LeaseHeld, RejectMutation, Goto, Inside, Working,
       Ended
<1>3. NotSavedYet' /\ BaseIsThere'
  BY DEF AllInv, TypeOK, StagesOfKind, NotSavedYet, BaseIsThere, ActiveExists,
       RejectMutation, Goto, Working, Beginning, dataVars, rowVars, ownVars
<1> QED BY <1>1, <1>2, <1>3, RowsUnchangedKeep DEF AllInv, RejectMutation, dataVars,
     rowVars

LEMMA FailSelectionKeeps ==
  ASSUME AllInv, NEW w \in Writers, FailSelection(w)
  PROVE  AllInv'
<1> USE KindsOfWriters
<1>1. TypeOK'
  BY DEF AllInv, TypeOK, FailSelection, Goto, Stages, Ended, dataVars, rowVars, ownVars
<1>2. StagesOfKind' /\ LeaseHeld'
  BY DEF AllInv, TypeOK, StagesOfKind, LeaseHeld, FailSelection, Goto, Inside, Working,
       Ended
<1>3. NotSavedYet' /\ BaseIsThere'
  BY DEF AllInv, TypeOK, StagesOfKind, NotSavedYet, BaseIsThere, ActiveExists,
       FailSelection, Goto, Working, Beginning, dataVars, rowVars, ownVars
<1> QED BY <1>1, <1>2, <1>3, RowsUnchangedKeep DEF AllInv, FailSelection, dataVars,
     rowVars

LEMMA SaveVersionKeeps ==
  ASSUME AllInv, NEW w \in Writers, SaveVersion(w)
  PROVE  AllInv'
<1> USE KindsOfWriters
<1>1. TypeOK'
  BY DEF AllInv, TypeOK, SaveVersion, End, Goto, Stages, Ended, ownVars
<1>2. StagesOfKind' /\ LeaseHeld'
  BY DEF AllInv, TypeOK, StagesOfKind, LeaseHeld, SaveVersion, End, Goto, Inside, Working, Ended
<1>3. NotSavedYet' /\ BaseIsThere' /\ ActiveExists'
  BY DEF AllInv, TypeOK, StagesOfKind, NotSavedYet, BaseIsThere, ActiveExists, SaveVersion, End,
         Goto, Working, Beginning, ownVars, Ended
<1>4. HasNewest'
  BY <1>1, OneMoreKeepsNewest DEF AllInv, TypeOK, SaveVersion
<1> QED BY <1>1, <1>2, <1>3, <1>4 DEF AllInv

LEMMA RestoreFailedMutationKeeps ==
  ASSUME AllInv, NEW w \in Writers, RestoreFailedMutation(w)
  PROVE  AllInv'
<1> USE KindsOfWriters
<1>1. w \in Mutations /\ base[w] \in saved \ {w}
  BY DEF AllInv, StagesOfKind, BaseIsThere, RestoreFailedMutation, Working, Ended
<1>2. TypeOK'
  BY <1>1 DEF AllInv, TypeOK, RestoreFailedMutation, End, Goto, Stages, Ended, ownVars
<1>3. StagesOfKind' /\ LeaseHeld' /\ ActiveExists'
  BY <1>1 DEF AllInv, TypeOK, StagesOfKind, LeaseHeld, ActiveExists, RestoreFailedMutation, End,
              Goto, Inside, Working, Ended
<1>4. NotSavedYet'
  BY DEF AllInv, TypeOK, NotSavedYet, RestoreFailedMutation, End, Goto, Beginning
<1>5. BaseIsThere'
  <2>1. \A u \in Leased \ {w} : pc[u] \notin Working
    BY <1>1 DEF AllInv, LeaseHeld, RestoreFailedMutation, Inside, Working
  <2> QED BY <1>1, <2>1 DEF AllInv, TypeOK, BaseIsThere, RestoreFailedMutation, End, Goto, Working,
                            ownVars
<1>6. HasNewest'
  BY DEF AllInv, HasNewest, RestoreFailedMutation
<1> QED BY <1>2, <1>3, <1>4, <1>5, <1>6 DEF AllInv

(* The writers without a lease: a selection, or a restore of a version.    *)
LEMMA OneCommitKeeps ==
  ASSUME AllInv, NEW w \in Selections \cup Restores, NEW v \in saved,
         SelectRoute(w) \/ RestoreVersion(w, v)
  PROVE  AllInv'
<1> USE KindsOfWriters
<1>1. PICK content \in SUBSET Writers : SaveInOneCommit(w, content)
  BY DEF AllInv, TypeOK, SelectRoute, RestoreVersion
<1>2. Goto(w, "done") /\ UNCHANGED <<lease, ownVars, crashes>>
  BY DEF SelectRoute, RestoreVersion
<1>3. NewestNumber + 1 \in Nat
  BY NewestIsReached
<1>4. TypeOK'
  <2>1. patch' \in [Writers -> {"none", "rejected", "accepted", "rolled_back"}]
    BY DEF AllInv, TypeOK, SelectRoute, RestoreVersion
  <2> QED BY <1>1, <1>2, <1>3, <2>1
          DEF AllInv, TypeOK, SaveInOneCommit, Goto, Stages, Ended, ownVars
<1>5. StagesOfKind' /\ LeaseHeld'
  BY <1>2 DEF AllInv, TypeOK, StagesOfKind, LeaseHeld, Goto, Inside, Working, Ended
<1>6. NotSavedYet' /\ BaseIsThere' /\ ActiveExists'
  BY <1>1, <1>2 DEF AllInv, TypeOK, NotSavedYet, BaseIsThere, ActiveExists, SaveInOneCommit, Goto,
                    Working, Beginning, ownVars
<1>7. HasNewest'
  BY <1>1, <1>4, OneMoreKeepsNewest DEF AllInv, TypeOK, SaveInOneCommit
<1> QED BY <1>4, <1>5, <1>6, <1>7 DEF AllInv

LEMMA RestartKeeps ==
  ASSUME AllInv, Restart
  PROVE  AllInv'
<1> USE KindsOfWriters
<1>1. \A w \in Writers : /\ pc[w] \in Ended \cup {"idle"} => pc'[w] = pc[w]
                         /\ pc[w] \notin Ended \cup {"idle"} => pc'[w] = "crashed"
  BY DEF Restart
<1>2. TypeOK'
  <2>1. pc' \in [Writers -> Stages]
    BY DEF AllInv, TypeOK, Restart, Stages, Ended
  <2>2. crashes' \in 0..MaxCrashes
    BY WritersAreDistinct DEF AllInv, TypeOK, Restart
  <2> QED BY <2>1, <2>2 DEF AllInv, TypeOK, Restart, dataVars, rowVars, ownVars
<1>3. StagesOfKind' /\ LeaseHeld' /\ NotSavedYet' /\ BaseIsThere'
  BY <1>1 DEF AllInv, StagesOfKind, LeaseHeld, NotSavedYet, BaseIsThere, Restart, Inside, Working,
              Beginning, Ended, dataVars, rowVars, ownVars
<1> QED BY <1>2, <1>3, RowsUnchangedKeep DEF AllInv, Restart, dataVars, rowVars

LEMMA StepKeepsAllInv == AllInv /\ [Next]_vars => AllInv'
<1> SUFFICES ASSUME AllInv, [Next]_vars PROVE AllInv'
  OBVIOUS
<1>1. CASE Restart
  BY <1>1, RestartKeeps
<1>2. ASSUME NEW w \in Writers, Step(w) PROVE AllInv'
  <2>1. CASE \/ ReadPlan(w) \/ TakeLease(w) \/ CheckBase(w) \/ RejectPatch(w)
             \/ CommitOperations(w) \/ CaptureSnapshot(w) \/ NextVersionNumber(w)
    BY <2>1, ReadPlanKeeps, TakeLeaseKeeps, CheckBaseKeeps, RejectPatchKeeps,
       CommitOperationsKeeps, CaptureSnapshotKeeps, NextVersionNumberKeeps
  <2>2. CASE \/ SaveVersion(w) \/ FailPatch(w) \/ AcceptMutation(w) \/ RejectMutation(w)
             \/ RestoreFailedMutation(w) \/ FailSelection(w)
    BY <2>2, SaveVersionKeeps, FailPatchKeeps, AcceptMutationKeeps, RejectMutationKeeps,
       RestoreFailedMutationKeeps, FailSelectionKeeps
  <2>3. CASE SelectRoute(w)
    <3>1. w \in Selections \cup Restores /\ active \in saved
      BY <2>3 DEF SelectRoute, AllInv, ActiveExists
    <3> QED BY <2>3, <3>1, OneCommitKeeps
  <2>4. CASE \E v \in saved : RestoreVersion(w, v)
    <3>1. w \in Selections \cup Restores
      BY <2>4 DEF RestoreVersion
    <3> QED BY <2>4, <3>1, OneCommitKeeps
  <2> QED BY <1>2, <2>1, <2>2, <2>3, <2>4 DEF Step
<1>3. CASE UNCHANGED vars
  BY <1>3, NobodyMoves
<1> QED BY <1>1, <1>2, <1>3 DEF Next

----------------------------------------------------------------------------
(* The writers under the lease, action by action. *)

(* A writer that is not of the population never turns up.                  *)
LEMMA PopulationFixed == AllInv /\ [Next]_vars /\ LeasedOnly' => LeasedOnly
<1> SUFFICES ASSUME AllInv, [Next]_vars, NEW u \in Writers, pc'[u] = "absent"
             PROVE  pc[u] = "absent"
  BY KindsOfWriters DEF LeasedOnly
<1>1. CASE Restart
  BY <1>1 DEF Restart, Ended
<1>2. ASSUME NEW w \in Writers, Step(w) PROVE pc[u] = "absent"
  BY <1>2 DEF AllInv, TypeOK, Step, ReadPlan, TakeLease, CheckBase, RejectPatch, CommitOperations,
     CaptureSnapshot, NextVersionNumber, SaveVersion, FailPatch, AcceptMutation, RejectMutation,
     RestoreFailedMutation, SelectRoute, FailSelection, RestoreVersion, End, Goto
<1>3. CASE UNCHANGED vars
  BY <1>3 DEF vars
<1> QED BY <1>1, <1>2, <1>3 DEF Next

LEMMA OneInside ==
  ASSUME AllInv, NEW w \in Leased, pc[w] \in Inside
  PROVE  \A u \in Leased \ {w} : pc[u] \notin Inside
BY DEF AllInv, LeaseHeld

LEMMA NewestIsActive ==
  ASSUME AllInv, Newest
  PROVE  NewestNumber = number[active]
<1>1. PICK v \in saved : number[v] = NewestNumber /\ NewestNumber \in Nat
  BY NewestIsReached
<1>2. number[active] <= NewestNumber /\ number[active] \in Nat
  BY NewestIsReached DEF AllInv, TypeOK, ActiveExists
<1>3. v = active \/ number[v] < number[active]
  BY DEF Newest
<1> QED BY <1>1, <1>2, <1>3

LEMMA ReadPlanInLine ==
  ASSUME AllInv, LeasedInv, NEW w \in Leased, ReadPlan(w)
  PROVE  LeasedInv'
<1> USE KindsOfWriters DEF LeasedInv
<1>1. BaseIsActive'
  BY OneInside DEF AllInv, TypeOK, NotSavedYet, BaseIsActive, ReadPlan, Goto, Inside,
       Working, Beginning, dataVars, rowVars
<1>2. BaseIsPrevious' /\ EditsKept' /\ Newest'
  BY DEF AllInv, TypeOK, NotSavedYet, BaseIsPrevious, EditsKept, Newest, ReadPlan,
       Beginning, dataVars, rowVars
<1>3. DraftIsFresh'
  BY OneInside DEF AllInv, TypeOK, DraftIsFresh, ReadPlan, Goto, Inside, Working,
       dataVars, rowVars
<1>4. NoTrace'
  BY OneInside DEF AllInv, TypeOK, NoTrace, ReadPlan, Goto, Inside, Working, Beginning,
       dataVars, rowVars
<1> QED BY <1>1, <1>2, <1>3, <1>4

LEMMA TakeLeaseInLine ==
  ASSUME AllInv, LeasedInv, NEW w \in Leased, TakeLease(w)
  PROVE  LeasedInv'
<1> USE KindsOfWriters DEF LeasedInv
<1>1. BaseIsActive'
  BY OneInside DEF AllInv, TypeOK, NotSavedYet, BaseIsActive, TakeLease, Goto, Inside,
       Working, Beginning, dataVars, rowVars, ownVars
<1>2. BaseIsPrevious' /\ EditsKept' /\ Newest'
  BY DEF AllInv, TypeOK, NotSavedYet, BaseIsPrevious, EditsKept, Newest, TakeLease,
       Beginning, dataVars, rowVars, ownVars
<1>3. DraftIsFresh'
  BY OneInside DEF AllInv, TypeOK, DraftIsFresh, TakeLease, Goto, Inside, Working,
       dataVars, rowVars, ownVars
<1>4. NoTrace'
  BY OneInside DEF AllInv, TypeOK, NoTrace, TakeLease, Goto, Inside, Working, Beginning,
       dataVars, rowVars, ownVars
<1> QED BY <1>1, <1>2, <1>3, <1>4

LEMMA CheckBaseInLine ==
  ASSUME AllInv, LeasedInv, NEW w \in Leased, CheckBase(w)
  PROVE  LeasedInv'
<1> USE KindsOfWriters DEF LeasedInv
<1>1. BaseIsActive'
  BY OneInside DEF AllInv, TypeOK, NotSavedYet, BaseIsActive, CheckBase, End, Goto,
       Inside, Working, Beginning, dataVars, rowVars
<1>2. BaseIsPrevious' /\ EditsKept' /\ Newest'
  BY DEF AllInv, TypeOK, NotSavedYet, BaseIsPrevious, EditsKept, Newest, CheckBase,
       Beginning, dataVars, rowVars
<1>3. DraftIsFresh'
  BY OneInside DEF AllInv, TypeOK, DraftIsFresh, CheckBase, End, Goto, Inside, Working,
       dataVars, rowVars
<1>4. NoTrace'
  BY OneInside DEF AllInv, TypeOK, NoTrace, CheckBase, End, Goto, Inside, Working,
       Beginning, dataVars, rowVars
<1> QED BY <1>1, <1>2, <1>3, <1>4

LEMMA RejectPatchInLine ==
  ASSUME AllInv, LeasedInv, NEW w \in Leased, RejectPatch(w)
  PROVE  LeasedInv'
<1> USE KindsOfWriters DEF LeasedInv
<1>1. BaseIsActive'
  BY OneInside DEF AllInv, TypeOK, NotSavedYet, BaseIsActive, RejectPatch, End, Goto,
       Inside, Working, Beginning, rowVars, ownVars
<1>2. BaseIsPrevious' /\ EditsKept' /\ Newest'
  BY DEF AllInv, TypeOK, NotSavedYet, BaseIsPrevious, EditsKept, Newest, RejectPatch,
       Beginning, rowVars, ownVars
<1>3. DraftIsFresh'
  BY OneInside DEF AllInv, TypeOK, DraftIsFresh, RejectPatch, End, Goto, Inside,
       Working, rowVars, ownVars
<1>4. NoTrace'
  BY OneInside DEF AllInv, TypeOK, NoTrace, RejectPatch, End, Goto, Inside, Working,
       Beginning, rowVars, ownVars
<1> QED BY <1>1, <1>2, <1>3, <1>4

LEMMA CommitOperationsInLine ==
  ASSUME AllInv, LeasedInv, NEW w \in Leased, CommitOperations(w)
  PROVE  LeasedInv'
<1> USE KindsOfWriters DEF LeasedInv
<1>1. BaseIsActive'
  BY OneInside DEF AllInv, TypeOK, NotSavedYet, BaseIsActive, CommitOperations, Goto,
       Inside, Working, Beginning, rowVars, ownVars
<1>2. BaseIsPrevious' /\ EditsKept' /\ Newest'
  BY DEF AllInv, TypeOK, NotSavedYet, BaseIsPrevious, EditsKept, Newest,
       CommitOperations, Beginning, rowVars, ownVars
<1>3. DraftIsFresh'
  BY OneInside DEF AllInv, TypeOK, DraftIsFresh, CommitOperations, Goto, Inside,
       Working, rowVars, ownVars
<1>4. NoTrace'
  BY OneInside DEF AllInv, TypeOK, NoTrace, CommitOperations, Goto, Inside, Working,
       Beginning, rowVars, ownVars
<1> QED BY <1>1, <1>2, <1>3, <1>4

LEMMA CaptureSnapshotInLine ==
  ASSUME AllInv, LeasedInv, NEW w \in Leased, CaptureSnapshot(w)
  PROVE  LeasedInv'
<1> USE KindsOfWriters DEF LeasedInv
<1>1. BaseIsActive'
  BY OneInside DEF AllInv, TypeOK, NotSavedYet, BaseIsActive, CaptureSnapshot, Goto,
       Inside, Working, Beginning, dataVars, rowVars
<1>2. BaseIsPrevious' /\ EditsKept' /\ Newest'
  BY DEF AllInv, TypeOK, NotSavedYet, BaseIsPrevious, EditsKept, Newest,
       CaptureSnapshot, Beginning, dataVars, rowVars
<1>3. DraftIsFresh'
  BY OneInside DEF AllInv, TypeOK, DraftIsFresh, CaptureSnapshot, Goto, Inside, Working,
       dataVars, rowVars
<1>4. NoTrace'
  BY OneInside DEF AllInv, TypeOK, NoTrace, CaptureSnapshot, Goto, Inside, Working,
       Beginning, dataVars, rowVars
<1> QED BY <1>1, <1>2, <1>3, <1>4

LEMMA NextVersionNumberInLine ==
  ASSUME AllInv, LeasedInv, NEW w \in Leased, NextVersionNumber(w)
  PROVE  LeasedInv'
<1> USE KindsOfWriters DEF LeasedInv
<1>1. BaseIsActive'
  BY OneInside DEF AllInv, TypeOK, NotSavedYet, BaseIsActive, NextVersionNumber, Goto,
       Inside, Working, Beginning, dataVars, rowVars
<1>2. BaseIsPrevious' /\ EditsKept' /\ Newest'
  BY DEF AllInv, TypeOK, NotSavedYet, BaseIsPrevious, EditsKept, Newest,
       NextVersionNumber, Beginning, dataVars, rowVars
<1>3. DraftIsFresh'
  BY OneInside, NewestIsActive DEF AllInv, TypeOK, DraftIsFresh, NextVersionNumber,
       Goto, Inside, Working, dataVars, rowVars
<1>4. NoTrace'
  BY OneInside DEF AllInv, TypeOK, NoTrace, NextVersionNumber, Goto, Inside, Working,
       Beginning, dataVars, rowVars
<1> QED BY <1>1, <1>2, <1>3, <1>4

LEMMA FailPatchInLine ==
  ASSUME AllInv, LeasedInv, NEW w \in Leased, FailPatch(w)
  PROVE  LeasedInv'
<1> USE KindsOfWriters DEF LeasedInv
<1>1. BaseIsActive'
  BY OneInside DEF AllInv, TypeOK, NotSavedYet, BaseIsActive, FailPatch, End, Goto,
       Inside, Working, Beginning, dataVars, rowVars, ownVars
<1>2. BaseIsPrevious' /\ EditsKept' /\ Newest'
  BY DEF AllInv, TypeOK, NotSavedYet, BaseIsPrevious, EditsKept, Newest, FailPatch,
       Beginning, dataVars, rowVars, ownVars
<1>3. DraftIsFresh'
  BY OneInside DEF AllInv, TypeOK, DraftIsFresh, FailPatch, End, Goto, Inside, Working,
       dataVars, rowVars, ownVars
<1>4. NoTrace'
  BY OneInside DEF AllInv, TypeOK, NoTrace, FailPatch, End, Goto, Inside, Working,
       Beginning, dataVars, rowVars, ownVars
<1> QED BY <1>1, <1>2, <1>3, <1>4

LEMMA AcceptMutationInLine ==
  ASSUME AllInv, LeasedInv, NEW w \in Leased, AcceptMutation(w)
  PROVE  LeasedInv'
<1> USE KindsOfWriters DEF LeasedInv
<1>1. BaseIsActive'
  BY OneInside DEF AllInv, TypeOK, NotSavedYet, BaseIsActive, AcceptMutation, End, Goto,
       Inside, Working, Beginning, dataVars, rowVars, ownVars
<1>2. BaseIsPrevious' /\ EditsKept' /\ Newest'
  BY DEF AllInv, TypeOK, NotSavedYet, BaseIsPrevious, EditsKept, Newest, AcceptMutation,
       Beginning, dataVars, rowVars, ownVars
<1>3. DraftIsFresh'
  BY OneInside DEF AllInv, TypeOK, DraftIsFresh, AcceptMutation, End, Goto, Inside,
       Working, dataVars, rowVars, ownVars
<1>4. NoTrace'
  BY OneInside DEF AllInv, TypeOK, NoTrace, AcceptMutation, End, Goto, Inside, Working,
       Beginning, dataVars, rowVars, ownVars
<1> QED BY <1>1, <1>2, <1>3, <1>4

LEMMA RejectMutationInLine ==
  ASSUME AllInv, LeasedInv, NEW w \in Leased, RejectMutation(w)
  PROVE  LeasedInv'
<1> USE KindsOfWriters DEF LeasedInv
<1>1. BaseIsActive'
  BY OneInside DEF AllInv, TypeOK, NotSavedYet, BaseIsActive, RejectMutation, Goto,
       Inside, Working, Beginning, dataVars, rowVars, ownVars
<1>2. BaseIsPrevious' /\ EditsKept' /\ Newest'
  BY DEF AllInv, TypeOK, NotSavedYet, BaseIsPrevious, EditsKept, Newest, RejectMutation,
       Beginning, dataVars, rowVars, ownVars
<1>3. DraftIsFresh'
  BY OneInside DEF AllInv, TypeOK, DraftIsFresh, RejectMutation, Goto, Inside, Working,
       dataVars, rowVars, ownVars
<1>4. NoTrace'
  BY OneInside DEF AllInv, TypeOK, NoTrace, RejectMutation, Goto, Inside, Working,
       Beginning, dataVars, rowVars, ownVars
<1> QED BY <1>1, <1>2, <1>3, <1>4

LEMMA SaveVersionInLine ==
  ASSUME AllInv, LeasedInv, NEW w \in Leased, SaveVersion(w)
  PROVE  LeasedInv'
<1> USE KindsOfWriters DEF LeasedInv
<1>1. \A u \in Leased \ {w} : pc[u] \notin Inside
  BY OneInside DEF SaveVersion, Inside, Working
<1>2. /\ base[w] = active /\ w \notin saved /\ active \in saved
      /\ draft[w] = live /\ w \in live /\ snap[active] \subseteq live
      /\ drawn[w] = number[active] + 1
  BY DEF AllInv, NotSavedYet, ActiveExists, BaseIsActive, DraftIsFresh, SaveVersion
<1>3. /\ saved' = saved \cup {w} /\ active' = w /\ base' = base /\ live' = live /\ patch' = patch
      /\ snap'[w] = live /\ number'[w] = number[active] + 1
      /\ \A v \in saved : snap'[v] = snap[v] /\ number'[v] = number[v]
      /\ \A v \in saved : number[v] \in Nat
  BY <1>2 DEF AllInv, TypeOK, SaveVersion, ownVars
<1>4. /\ pc'[w] \in {"verify", "done"}
      /\ \A u \in Leased \ {w} : pc'[u] = pc[u] /\ pc[u] \notin Inside
  BY <1>1 DEF AllInv, TypeOK, SaveVersion, End, Goto
<1>5. BaseIsActive'
  BY <1>3, <1>4 DEF BaseIsActive, Inside, Working
<1>6. Newest'
  BY <1>2, <1>3 DEF Newest
<1>7. BaseIsPrevious'
  <2>1. base'[w] \in saved' /\ number'[base'[w]] < number'[w]
    BY <1>2, <1>3
  <2>2. \A u \in saved' \ {base'[w]} : number'[u] < number'[w] => number'[u] < number'[base'[w]]
    BY <1>2, <1>3 DEF Newest
  <2>3. ASSUME NEW v \in saved \ {First}
        PROVE  /\ base'[v] \in saved' /\ number'[base'[v]] < number'[v]
               /\ \A u \in saved' \ {base'[v]} :
                    number'[u] < number'[v] => number'[u] < number'[base'[v]]
    <3>1. number[v] <= number[active]
      BY <1>2, <1>3 DEF Newest
    <3>2. ~(number'[w] < number'[v])
      BY <1>2, <1>3, <3>1
    <3> QED BY <1>3, <3>2 DEF BaseIsPrevious
  <2> QED BY <1>3, <2>1, <2>2, <2>3 DEF BaseIsPrevious
<1>8. EditsKept'
  <2>1. base[w] # w /\ \A v \in saved \ {First} : base[v] \in saved
    BY <1>2 DEF BaseIsPrevious
  <2> QED BY <1>2, <1>3, <2>1 DEF EditsKept
<1>9. DraftIsFresh'
  BY <1>3, <1>4 DEF DraftIsFresh, Inside, Working
<1>10. NoTrace'
  BY <1>2, <1>3, <1>4 DEF NoTrace, Inside, Working, Beginning, SaveVersion
<1> QED BY <1>5, <1>6, <1>7, <1>8, <1>9, <1>10

LEMMA RestoreFailedMutationInLine ==
  ASSUME AllInv, LeasedInv, NEW w \in Leased, RestoreFailedMutation(w)
  PROVE  LeasedInv'
<1> USE KindsOfWriters DEF LeasedInv
<1>1. \A u \in Leased \ {w} : pc[u] \notin Inside
  BY OneInside DEF RestoreFailedMutation, Inside, Working
<1>2. base[w] \in saved \ {w} /\ w # First
  BY DEF AllInv, BaseIsThere, RestoreFailedMutation, Working
<1>3. (w \in saved /\ active = w) \/ (w \notin saved /\ active = base[w])
  BY DEF BaseIsActive, RestoreFailedMutation
<1>4. /\ live' = snap[base[w]] /\ saved' = saved \ {w} /\ active' = base[w]
      /\ UNCHANGED <<snap, number, base, draft, drawn>>
      /\ \A v \in saved : number[v] \in Nat
  BY DEF AllInv, TypeOK, RestoreFailedMutation, ownVars
<1>5. /\ pc'[w] = "failed" /\ patch'[w] = "rolled_back"
      /\ \A u \in Leased \ {w} : pc'[u] = pc[u] /\ pc[u] \notin Inside /\ patch'[u] = patch[u]
  BY <1>1 DEF AllInv, TypeOK, RestoreFailedMutation, End, Goto
<1>6. BaseIsActive' /\ DraftIsFresh'
  BY <1>4, <1>5 DEF BaseIsActive, DraftIsFresh, Inside, Working
<1>7. Newest'
  BY <1>2, <1>3, <1>4 DEF Newest, BaseIsPrevious
<1>8. \A v \in saved \ {First} : v # w => base[v] # w
  <2> SUFFICES ASSUME NEW v \in saved \ {First}, v # w, base[v] = w PROVE FALSE
    OBVIOUS
  <2>1. w \in saved /\ number[w] < number[v]
    BY DEF BaseIsPrevious
  <2> QED BY <1>3, <1>4, <2>1 DEF Newest
<1>9. BaseIsPrevious' /\ EditsKept'
  BY <1>4, <1>8 DEF BaseIsPrevious, EditsKept
<1>10. NoTrace'
  <2>1. ASSUME NEW u \in Leased, pc'[u] \in Beginning \/ patch'[u] = "rolled_back"
        PROVE  u \notin snap[base[w]]
    <3>1. CASE u = w
      BY <1>2, <3>1 DEF NoTrace, RestoreFailedMutation, Working
    <3>2. CASE u # w
      <4>1. u \notin saved
        BY <1>5, <2>1, <3>2 DEF AllInv, NotSavedYet, NoTrace
      <4> QED BY <1>2, <1>5, <2>1, <3>2, <4>1 DEF NoTrace
    <3> QED BY <3>1, <3>2
  <2> QED BY <1>4, <1>5, <2>1 DEF NoTrace, RestoreFailedMutation, Working, Beginning, Inside
<1> QED BY <1>6, <1>7, <1>9, <1>10

LEMMA RestartInLine ==
  ASSUME AllInv, LeasedInv, Restart
  PROVE  LeasedInv'
<1> USE KindsOfWriters DEF LeasedInv
<1>1. /\ UNCHANGED <<live, saved, snap, number, active, patch, base, draft, drawn>>
      /\ \A w \in Writers : \/ pc[w] \in Ended \cup {"idle"} /\ pc'[w] = pc[w]
                            \/ pc'[w] = "crashed"
      /\ \A w \in Writers : pc[w] = "failed" => pc'[w] = "failed"
  BY DEF Restart, dataVars, rowVars, ownVars, Ended
<1>2. BaseIsActive' /\ BaseIsPrevious' /\ EditsKept' /\ Newest' /\ DraftIsFresh'
  BY <1>1 DEF BaseIsActive, BaseIsPrevious, EditsKept, Newest, DraftIsFresh, Ended
<1>3. NoTrace'
  BY <1>1 DEF NoTrace, Working, Beginning, Ended
<1> QED BY <1>2, <1>3

LEMMA StepKeepsIInv == IInv /\ [Next]_vars => IInv'
<1> SUFFICES ASSUME IInv, [Next]_vars, LeasedOnly' PROVE LeasedInv'
  BY StepKeepsAllInv DEF IInv
<1>1. AllInv /\ LeasedOnly /\ LeasedInv
  BY PopulationFixed DEF IInv
<1>2. CASE Restart
  BY <1>1, <1>2, RestartInLine
<1>3. ASSUME NEW w \in Writers, Step(w) PROVE LeasedInv'
  <2>1. pc[w] # "absent"
    BY <1>3, KindsOfWriters DEF Step, ReadPlan, TakeLease, CheckBase, RejectPatch,
       CommitOperations, CaptureSnapshot, NextVersionNumber, SaveVersion, FailPatch,
       AcceptMutation, RejectMutation, RestoreFailedMutation, SelectRoute, FailSelection,
       RestoreVersion
  <2>2. w \in Leased
    BY <1>1, <2>1, KindsOfWriters DEF LeasedOnly
  <2>3. ~SelectRoute(w) /\ ~FailSelection(w) /\ ~(\E v \in saved : RestoreVersion(w, v))
    BY <2>2, KindsOfWriters DEF SelectRoute, FailSelection, RestoreVersion
  <2> QED BY <1>1, <1>3, <2>2, <2>3, ReadPlanInLine, TakeLeaseInLine, CheckBaseInLine,
             RejectPatchInLine, CommitOperationsInLine, CaptureSnapshotInLine,
             NextVersionNumberInLine, SaveVersionInLine, FailPatchInLine, AcceptMutationInLine,
             RejectMutationInLine, RestoreFailedMutationInLine DEF Step
<1>4. CASE UNCHANGED vars
  BY <1>1, <1>4 DEF LeasedInv, BaseIsActive, BaseIsPrevious, EditsKept, Newest, DraftIsFresh,
     NoTrace, vars, dataVars, rowVars, ownVars
<1> QED BY <1>2, <1>3, <1>4 DEF Next


----------------------------------------------------------------------------
(* The theorems. *)

LEMMA InvariantHolds == Spec => []IInv
<1>1. Init => IInv
  BY InitIInv
<1>2. IInv /\ [Next]_vars => IInv'
  BY StepKeepsIInv
<1> QED BY <1>1, <1>2, PTL DEF Spec

(* The tables and the stages keep their shape (the type invariant).        *)
THEOREM Typing == Spec => []TypeOK
<1>1. IInv => TypeOK
  BY DEF IInv, AllInv
<1> QED BY <1>1, InvariantHolds, PTL

(* conversation_sessions.active_version_id names a row that exists,        *)
(* whichever writers save, take back or restore versions at the same time. *)
THEOREM ActiveVersionExists == Spec => []ActiveExists
<1>1. IInv => ActiveExists
  BY DEF IInv, AllInv
<1> QED BY <1>1, InvariantHolds, PTL

(* A version saved under the lease contains its edit and all its base had. *)
THEOREM EditsAreKept == Spec => []NoLostEdit
<1>1. IInv => NoLostEdit
  BY DEF IInv, LeasedInv, EditsKept, NoLostEdit
<1> QED BY <1>1, InvariantHolds, PTL

(* The active version alone has the highest number, while every writer of  *)
(* the plan takes the lease.                                               *)
THEOREM ActiveHasNewestNumber == Spec => []ActiveIsNewest
<1>1. IInv => ActiveIsNewest
  BY DEF IInv, LeasedInv, Newest, ActiveIsNewest
<1> QED BY <1>1, InvariantHolds, PTL

(* A mutation that was rolled back is in no plan and in no version.        *)
THEOREM RollbackIsComplete == Spec => []RolledBackLeavesNoTrace
<1>1. IInv => RolledBackLeavesNoTrace
  <2> SUFFICES ASSUME IInv, LeasedOnly, NEW w \in Mutations, patch[w] = "rolled_back"
               PROVE  w \notin live /\ w \notin saved /\ \A v \in saved : w \notin snap[v]
    BY DEF RolledBackLeavesNoTrace
  <2>1. w \in Leased /\ NoTrace
    BY KindsOfWriters DEF IInv, LeasedInv
  <2> QED BY <2>1 DEF NoTrace
<1> QED BY <1>1, InvariantHolds, PTL

----------------------------------------------------------------------------
(* The refinement: every step of the writers under the lease appends a     *)
(* version to the active one, takes the newest back, or changes neither.   *)

LEMMA LineStep ==
  ASSUME IInv, LeasedOnly, [Next]_vars
  PROVE  Line!NextHistory \/ UNCHANGED <<Parents, active>>
<1> USE KindsOfWriters
<1>1. AllInv /\ LeasedInv
  BY DEF IInv
<1>2. CASE Restart \/ UNCHANGED vars
  BY <1>2 DEF Restart, Parents, vars, dataVars, rowVars, ownVars
<1>3. ASSUME NEW w \in Leased, SaveVersion(w) PROVE Line!Append(w)
  <2>1. base[w] = active /\ w \notin saved /\ w # First
    BY <1>1, <1>3 DEF AllInv, LeasedInv, NotSavedYet, BaseIsActive, SaveVersion
  <2>2. saved' = saved \cup {w} /\ active' = w /\ base' = base
    BY <1>3 DEF SaveVersion, ownVars
  <2> QED BY <2>1, <2>2 DEF Line!Append, Parents
<1>4. ASSUME NEW w \in Leased, RestoreFailedMutation(w)
      PROVE  Line!TakeBack \/ UNCHANGED <<Parents, active>>
  <2>1. /\ saved' = saved \ {w} /\ active' = base[w] /\ base' = base /\ w # First
        /\ (w \in saved /\ active = w) \/ (w \notin saved /\ active = base[w])
    BY <1>1, <1>4 DEF AllInv, LeasedInv, BaseIsActive, RestoreFailedMutation, ownVars
  <2>2. CASE w \in saved
    BY <2>1, <2>2 DEF Line!TakeBack, Parents
  <2>3. CASE w \notin saved
    BY <2>1, <2>3 DEF Parents
  <2> QED BY <2>2, <2>3
<1>5. ASSUME NEW w \in Leased, ReadPlan(w) PROVE UNCHANGED <<Parents, active>>
  <2>1. w \notin saved
    BY <1>1, <1>5 DEF AllInv, NotSavedYet, ReadPlan, Beginning
  <2> QED BY <1>1, <1>5, <2>1 DEF AllInv, TypeOK, ReadPlan, Parents, dataVars, rowVars
<1>6. ASSUME NEW w \in Leased,
             \/ TakeLease(w) \/ CheckBase(w) \/ RejectPatch(w) \/ CommitOperations(w)
             \/ CaptureSnapshot(w) \/ NextVersionNumber(w) \/ FailPatch(w)
             \/ AcceptMutation(w) \/ RejectMutation(w)
      PROVE  UNCHANGED <<Parents, active>>
  <2>1. UNCHANGED <<saved, base, active>>
    BY <1>6 DEF TakeLease, CheckBase, RejectPatch, CommitOperations, CaptureSnapshot,
       NextVersionNumber, FailPatch, AcceptMutation, RejectMutation, dataVars, rowVars, ownVars
  <2> QED BY <2>1 DEF Parents
<1>7. ASSUME NEW w \in Writers, Step(w)
      PROVE  Line!NextHistory \/ UNCHANGED <<Parents, active>>
  <2>1. w \in Leased
    BY <1>7 DEF LeasedOnly, Step, ReadPlan, TakeLease, CheckBase, RejectPatch, CommitOperations,
       CaptureSnapshot, NextVersionNumber, SaveVersion, FailPatch, AcceptMutation,
       RejectMutation, RestoreFailedMutation, SelectRoute, FailSelection, RestoreVersion
  <2>2. ~SelectRoute(w) /\ ~FailSelection(w) /\ ~(\E v \in saved : RestoreVersion(w, v))
    BY <2>1 DEF SelectRoute, FailSelection, RestoreVersion
  <2> QED BY <1>3, <1>4, <1>5, <1>6, <1>7, <2>1, <2>2 DEF Step, Line!NextHistory
<1> QED BY <1>2, <1>7 DEF Next

(* The long way of a patch or a mutation, from the check of its base to    *)
(* its last commit, implements the one-step history of VersionHistory.     *)
THEOREM WritersKeepOneLine == Spec => LinearHistory
<1>1. Init => Line!InitHistory
  BY DEF Init, Line!InitHistory
<1>2. IInv /\ [Next]_vars => [LeasedOnly => Line!NextHistory]_<<Parents, active>>
  BY LineStep
<1> QED BY <1>1, <1>2, InvariantHolds, PTL DEF Spec, LinearHistory, Line!History, Parents

=============================================================================
