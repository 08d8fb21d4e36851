----------------------- MODULE ProposalAdoptionProofs -----------------------
(***************************************************************************)
(* That adopting a proposal happens once and leaves the four tables in     *)
(* agreement, for any proposals, presses, saves and crashes.               *)
(***************************************************************************)
EXTENDS ProposalAdoption, FiniteSetTheorems, WellFoundedInduction, TLAPS

----------------------------------------------------------------------------
(* The inductive invariant. *)

Settled(p) == offers[p] \in {"committed", "comparison_only"}

(* Stages of a press: before its claim, with its claim, with the selection.*)
Arriving == {"load", "recovered", "released", "claim"}
Claiming == {"facts", "commit", "fence", "persist", "save", "verify", "undo", "release", "mark",
             "reconcile", "finish", "abandon"}
Selecting == {"persist", "save", "verify", "undo", "release", "mark", "reconcile"}
Untouched == Arriving \cup {"facts", "commit", "fence", "persist"}

TablesTyped ==
  /\ ExecsTypeOK
  /\ workflow \in {"simple", "final"}
  /\ status \in {"awaiting_selection", "committing", "committed", "expired"}
  /\ selected \in Proposals \cup {NoProposal}
  /\ expected \in Versions \cup {NoVersion}
  /\ offers \in [Proposals -> {"offered", "expired", "committed", "comparison_only"}]
  /\ patch \in [Presses -> {"none", "open", "saved"}]
  /\ versions \subseteq Versions /\ activeVersion \in Versions \cup {NoVersion}
  /\ pressed \in 0..MaxRequests /\ target \in [Presses -> Proposals \cup {NoProposal}]
  /\ at \in {"idle"} \cup Arriving \cup Claiming
  /\ before \in Versions \cup {NoVersion} /\ prior \in Proposals \cup {NoProposal}
  /\ undone \subseteq Presses /\ crashes \in Nat

(* The press at work has a number and a target; later ones have left no    *)
(* trace.                                                                  *)
PressesInOrder ==
  /\ \A r \in Presses : r <= pressed => target[r] \in Proposals
  /\ \A r \in Presses : r > pressed => target[r] = NoProposal /\ patch[r] = "none"
  /\ \A r \in undone : r <= pressed
  /\ at # "idle" => pressed \in Presses

(* A patch row names a version exactly while that version exists. *)
SavedIsVersion == \A r \in Presses : patch[r] = "saved" <=> r \in versions

(* No claim carries a guide binding, so a failed claim never proves that   *)
(* its business did not start, and a strict one is taken once.             *)
RowsOfChoices ==
  \A p \in Proposals :
    /\ "guide" \notin execs[p].kind /\ ~execs[p].unstarted
    /\ execs[p].status = "none" => execs[p].turn = Nobody
    /\ execs[p].result # NoVersion => execs[p].result \in Presses /\ target[execs[p].result] = p
    /\ at # "idle" => execs[p].result # pressed
    /\ Strict(p) => \A r \in VersionsOf(p) : r = execs[p].turn

(* What the press at work relies on at its stage. *)
PressAtWork ==
  /\ at \in Untouched => patch[pressed] = "none"
  /\ at \in Claiming => execs[Choice].turn = pressed
  /\ at \in Selecting => status = "committing" /\ selected = Choice
  /\ at \in {"verify", "mark", "reconcile", "finish"} => pressed \in versions
  /\ at \in {"save", "release"} => pressed \notin versions
  /\ at = "fence" => status = "awaiting_selection"
  /\ at \in {"recovered", "finish"} => Settled(Choice)
  /\ at = "recovered" => RecordedResult(Choice) # NoVersion
  /\ at \in {"fence", "persist", "save"} => expected = before
  /\ at \in {"facts", "commit", "fence", "persist"} /\ activeVersion = NoVersion => before = NoVersion
  /\ at = "save" => activeVersion = before

(* The versions of other presses are settled before a selection is taken. *)
OthersAreSettled ==
  at \in Selecting => \A p \in Proposals : VersionsOf(p) \ {pressed} # {} => Settled(p)

(* A version the portfolio does not know of is the newest one on record    *)
(* for the proposal it is still committing.                                *)
UnsettledIsOnRecord ==
  status = "committing" /\ ~Settled(selected) =>
    \A r \in VersionsOf(selected), q \in Presses :
      target[q] = selected /\ patch[q] # "none" => q <= r

(* Outside a simple direction an adoption closes the portfolio. *)
FinalCloses ==
  ~SimpleDirection => \A p \in Proposals : Settled(p) => status = "committed"

SelectionIsOwned ==
  crashes = 0 /\ status = "committing" /\ at \notin {"persist", "save", "undo", "release"} =>
    \/ VersionsOf(selected) # {}
    \/ \E r \in undone : target[r] = selected

OneVersionEach ==
  \A p \in Proposals : Strict(p) \/ ~SimpleDirection =>
    \A r, q \in VersionsOf(p) : r = q

AdoptionInv ==
  /\ TablesTyped /\ PressesInOrder /\ SavedIsVersion /\ RowsOfChoices /\ PressAtWork
  /\ OthersAreSettled /\ UnsettledIsOnRecord /\ FinalCloses /\ SelectionIsOwned
  /\ OneVersionEach /\ SuccessIsBacked /\ VersionIsNamed

----------------------------------------------------------------------------

(* A nonempty set of numbers up to n has a largest one. *)
LEMMA Largest ==
  ASSUME NEW n \in Nat, NEW S, S \subseteq 0..n, S # {}
  PROVE  \E m \in S : \A k \in S : k <= m
<1> DEFINE R == OpToRel(<, Nat)
           T == {n - k : k \in S}
<1>1. IsWellFoundedOn(R, Nat) BY NatLessThanWellFounded
<1>2. T \subseteq Nat /\ T # {}
  <2> HIDE DEF R
  <2>1. \A k \in S : n - k \in Nat OBVIOUS
  <2> QED BY <2>1
<1>3. \E x \in T : \A y \in T : ~(<<y, x>> \in R)
  <2> HIDE DEF R, T
  <2> QED BY <1>1, <1>2, WFMin
<1>4. \E x \in T : \A y \in T : ~(y < x) BY <1>2, <1>3 DEF OpToRel
<1>5. PICK s \in S : \A y \in T : ~(y < n - s) BY <1>4
<1>6. \A k \in S : n - k \in T /\ k \in Nat /\ k <= n OBVIOUS
<1>7. \A k \in S : k <= s
  <2> HIDE DEF R, T
  <2> QED BY <1>5, <1>6
<1> QED BY <1>7

(* A step that keeps rows, versions and presses, and takes no proposal's   *)
(* settlement back.                                                        *)
LEMMA RowsKept ==
  ASSUME AdoptionInv, UNCHANGED <<execs, workflow, patch, versions, undone, pressed, target>>,
         at' # "idle" => at # "idle", \A p \in Proposals : Settled(p) => Settled(p)'
  PROVE  /\ PressesInOrder' /\ SavedIsVersion' /\ RowsOfChoices' /\ OneVersionEach' /\ SuccessIsBacked'
         /\ Choice' = Choice
<1>1. PressesInOrder' /\ SavedIsVersion'
  BY DEF AdoptionInv, PressesInOrder, SavedIsVersion
<1>2. RowsOfChoices' /\ OneVersionEach'
  BY DEF AdoptionInv, RowsOfChoices, OneVersionEach, VersionsOf, Strict, SimpleDirection
<1>3. SuccessIsBacked' /\ Choice' = Choice
  BY DEF AdoptionInv, SuccessIsBacked, VersionsOf, Settled, Choice
<1> QED BY <1>1, <1>2, <1>3

(* ... and leaves the portfolio as it is. *)
LEMMA PortfolioKept ==
  ASSUME AdoptionInv, UNCHANGED <<workflow, status, selected, offers, patch, versions, target>>
  PROVE  UnsettledIsOnRecord' /\ FinalCloses' /\ VersionIsNamed'
BY DEF AdoptionInv, UnsettledIsOnRecord, FinalCloses, VersionIsNamed, VersionsOf, Settled,
     SimpleDirection

LEMMA QuietStep ==
  ASSUME AdoptionInv,
         \/ RefuseExpired \/ NothingToRecover \/ ReplayChoice \/ RefuseChoice \/ CheckFacts
         \/ VerifyProposal \/ RejectProposal \/ VerifierAccepts \/ PersistFails \/ SelectionLeaseExpires
  PROVE  AdoptionInv'
<1>1. UNCHANGED <<execs, workflow, status, selected, expected, offers, patch, versions,
                  activeVersion, pressed, target, undone, crashes>>
  BY DEF RefuseExpired, NothingToRecover, ReplayChoice, RefuseChoice, CheckFacts,
       VerifyProposal, RejectProposal, VerifierAccepts, PersistFails, SelectionLeaseExpires,
       portfolioVars, writerVars, pressVars
<1>2. at' # "idle" => at # "idle"
  BY DEF RefuseExpired, NothingToRecover, ReplayChoice, RefuseChoice, CheckFacts,
       VerifyProposal, RejectProposal, VerifierAccepts, PersistFails, SelectionLeaseExpires
<1>3. RowsOfChoices' /\ PressesInOrder' /\ SavedIsVersion' /\ OneVersionEach' /\ SuccessIsBacked' /\ Choice' = Choice
  BY <1>1, <1>2, RowsKept DEF Settled
<1>4. UnsettledIsOnRecord' /\ FinalCloses' /\ VersionIsNamed'
  BY <1>1, PortfolioKept
<1>5. TablesTyped'
  BY <1>1 DEF AdoptionInv, TablesTyped, ExecsTypeOK, Arriving, Claiming, Proceed, Answer,
       pressVars, RefuseExpired, NothingToRecover, ReplayChoice, RefuseChoice, CheckFacts,
       VerifyProposal, RejectProposal, VerifierAccepts, PersistFails, SelectionLeaseExpires
<1>6. PressAtWork'
  BY <1>1, <1>3 DEF AdoptionInv, PressAtWork, RecordedResult, Settled, Untouched, Arriving,
       Claiming, Selecting, Proceed, Answer, pressVars, RefuseExpired, NothingToRecover,
       ReplayChoice, RefuseChoice, CheckFacts, VerifyProposal, RejectProposal, VerifierAccepts,
       PersistFails, SelectionLeaseExpires
<1>7. OthersAreSettled' /\ SelectionIsOwned'
  BY <1>1 DEF AdoptionInv, PressAtWork, OthersAreSettled, SelectionIsOwned, VersionsOf, Settled,
       Selecting, Proceed, Answer, RefuseExpired, NothingToRecover, ReplayChoice, RefuseChoice,
       CheckFacts, VerifyProposal, RejectProposal, VerifierAccepts, PersistFails,
       SelectionLeaseExpires
<1> QED BY <1>3, <1>4, <1>5, <1>6, <1>7 DEF AdoptionInv

----------------------------------------------------------------------------
(* The portfolio. *)

(* What the patch rows of a proposal tell: a version of it, and its newest *)
(* one; they tell nothing only if the newest row is without a version.     *)
LEMMA RecordedIsVersion ==
  ASSUME AdoptionInv, NEW p \in Proposals
  PROVE  /\ RecordedResult(p) # NoVersion => RecordedResult(p) \in VersionsOf(p)
         /\ \A r \in VersionsOf(p) :
              (\A q \in Presses : target[q] = p /\ patch[q] # "none" => q <= r) => RecordedResult(p) = r
<1> USE AdoptionConstants, PressesAreNumbered
<1> DEFINE rows == {r \in Presses : target[r] = p /\ patch[r] # "none"}
           newest == CHOOSE r \in rows : \A q \in rows : q <= r
<1>1. RecordedResult(p) = IF rows # {} /\ patch[newest] = "saved" THEN newest ELSE NoVersion
  BY DEF RecordedResult
<1>2. rows # {} => newest \in rows /\ \A q \in rows : q <= newest
  <2> SUFFICES ASSUME rows # {} PROVE \E m \in rows : \A q \in rows : q <= m
    OBVIOUS
  <2>1. rows \in SUBSET (1..pressed)
    BY DEF AdoptionInv, TablesTyped, PressesInOrder, Presses
  <2>2. pressed \in Nat /\ rows \subseteq 0..pressed
    BY <2>1, PressesAreNumbered DEF AdoptionInv, TablesTyped
  <2> QED BY <2>2, Largest
<1> HIDE DEF newest
<1>3. RecordedResult(p) # NoVersion => RecordedResult(p) \in VersionsOf(p)
  BY <1>1, <1>2 DEF AdoptionInv, SavedIsVersion, VersionsOf
<1>4. ASSUME NEW r \in VersionsOf(p), \A q \in rows : q <= r PROVE RecordedResult(p) = r
  <2>1. r \in rows /\ patch[r] = "saved" /\ r \in Presses /\ rows \subseteq Presses
    BY DEF AdoptionInv, SavedIsVersion, VersionsOf
  <2>2. newest = r
    BY <1>2, <1>4, <2>1 DEF Presses
  <2> QED BY <1>1, <2>1, <2>2
<1> QED BY <1>3, <1>4

LEMMA SelectProposalKeeps ==
  ASSUME AdoptionInv, SelectProposal
  PROVE  AdoptionInv'
<1>1. /\ UNCHANGED <<execs, workflow, expected, offers, patch, versions, activeVersion, pressed,
                     target, before, prior, undone, crashes>>
      /\ at = "fence" /\ at' = "persist" /\ status = "awaiting_selection" /\ status' = "committing"
      /\ selected' = Choice
  BY DEF SelectProposal, ClaimSelection, Proceed, writerVars, pressVars
<1>2. Choice \in Proposals /\ pressed \in Presses /\ pressed \notin versions
  BY <1>1 DEF AdoptionInv, PressesInOrder, PressAtWork, Untouched, SavedIsVersion, TablesTyped,
       Choice, Presses
<1>3. \A p \in Proposals : VersionsOf(p) # {} => Settled(p)
  BY <1>1 DEF AdoptionInv, VersionIsNamed, Settled
<1>4. RowsOfChoices' /\ PressesInOrder' /\ SavedIsVersion' /\ OneVersionEach' /\ SuccessIsBacked' /\ Choice' = Choice
  BY <1>1, RowsKept DEF Settled
<1>5. TablesTyped' /\ PressAtWork'
  BY <1>1, <1>2, <1>4 DEF AdoptionInv, TablesTyped, ExecsTypeOK, PressAtWork, Claiming,
       Selecting, Untouched, Arriving
<1>6. OthersAreSettled' /\ UnsettledIsOnRecord' /\ VersionIsNamed'
  BY <1>1, <1>2, <1>3 DEF OthersAreSettled, UnsettledIsOnRecord, VersionIsNamed, VersionsOf, Settled
<1>7. FinalCloses' /\ SelectionIsOwned'
  BY <1>1 DEF AdoptionInv, FinalCloses, SelectionIsOwned, Settled, SimpleDirection
<1> QED BY <1>4, <1>5, <1>6, <1>7 DEF AdoptionInv

(* Giving the selection back, after an undo or from a dead press. *)
LEMMA ReleaseKeeps ==
  ASSUME AdoptionInv, ReleaseAfterUndo \/ ReleaseStaleSelection
  PROVE  AdoptionInv'
<1>1. /\ UNCHANGED <<execs, workflow, expected, offers, patch, versions, activeVersion, pressed,
                     target, before, prior, undone, crashes>>
      /\ status = "committing" /\ status' = "awaiting_selection"
      /\ selected' \in Proposals \cup {NoProposal}
      /\ (at = "release" /\ at' = "abandon") \/ (at = "load" /\ at' = "released")
  BY DEF AdoptionInv, TablesTyped, PressAtWork, Selecting, ReleaseAfterUndo, ReleaseStaleSelection,
     ReleaseSelection, LeftCommitting, Proceed, writerVars, pressVars
<1>2. Choice \in Proposals /\ selected = Choice
  BY <1>1 DEF AdoptionInv, PressesInOrder, PressAtWork, Selecting, TablesTyped, Choice, Presses,
     ReleaseAfterUndo, ReleaseStaleSelection, LeftCommitting
<1>3. VersionsOf(Choice) # {} => Settled(Choice)
  <2>1. CASE ReleaseAfterUndo
    BY <1>2, <2>1 DEF ReleaseAfterUndo, AdoptionInv, PressAtWork, OthersAreSettled, Selecting,
         VersionsOf
  <2>2. CASE ReleaseStaleSelection
    <3> SUFFICES ASSUME NEW r \in VersionsOf(Choice), ~Settled(Choice) PROVE FALSE
      OBVIOUS
    <3>1. RecordedResult(Choice) = r
      BY <1>1, <1>2, RecordedIsVersion DEF AdoptionInv, UnsettledIsOnRecord
    <3> QED BY <2>2, <3>1, AdoptionConstants DEF ReleaseStaleSelection, VersionsOf, Presses
  <2> QED BY <2>1, <2>2
<1>4. RowsOfChoices' /\ PressesInOrder' /\ SavedIsVersion' /\ OneVersionEach' /\ SuccessIsBacked' /\ Choice' = Choice
  BY <1>1, RowsKept DEF Settled
<1>5. TablesTyped'
  BY <1>1 DEF AdoptionInv, TablesTyped, ExecsTypeOK, Claiming, Arriving
<1>6. PressAtWork' /\ OthersAreSettled' /\ UnsettledIsOnRecord'
  BY <1>1, <1>4 DEF AdoptionInv, PressAtWork, OthersAreSettled, UnsettledIsOnRecord, Claiming,
       Selecting, Untouched, Arriving
<1>7. VersionIsNamed'
  BY <1>1, <1>2, <1>3 DEF AdoptionInv, VersionIsNamed, VersionsOf, Settled
<1>8. FinalCloses' /\ SelectionIsOwned'
  BY <1>1 DEF AdoptionInv, FinalCloses, SelectionIsOwned, Settled, SimpleDirection
<1> QED BY <1>4, <1>5, <1>6, <1>7, <1>8 DEF AdoptionInv

(* Settling the portfolio: by the press, from evidence, or in recovery. *)
LEMMA PersistSelectionKeeps ==
  ASSUME AdoptionInv,
         \/ RecoverPortfolio
         \/ (MarkCommitted /\ PersistSelection(Choice, pressed) /\ Proceed("finish"))
         \/ (ReconcileCommitted /\ PersistSelection(Choice, pressed) /\ Proceed("finish"))
  PROVE  AdoptionInv'
<1>1. /\ UNCHANGED <<execs, workflow, patch, versions, activeVersion, pressed, target, before, prior, undone, crashes>>
      /\ status' = IF SimpleDirection THEN "awaiting_selection" ELSE "committed"
      /\ selected' = Choice /\ expected' \in {expected, activeVersion, pressed}
      /\ offers' = [q \in Proposals |-> IF q = Choice THEN "committed" ELSE "comparison_only"]
      /\ \/ at = "load" /\ at' = "recovered" /\ RecordedResult(Choice) # NoVersion
         \/ at \in {"mark", "reconcile"} /\ at' = "finish"
  BY DEF RecoverPortfolio, MarkCommitted, ReconcileCommitted, WriterFinished, PersistSelection,
       Proceed, writerVars, pressVars
<1>2. Choice \in Proposals /\ pressed \in Versions
  BY <1>1, AdoptionConstants DEF AdoptionInv, PressesInOrder, TablesTyped, Choice, Presses
<1>3. \A p \in Proposals : Settled(p)'
  BY <1>1 DEF Settled
<1>4. RowsOfChoices' /\ PressesInOrder' /\ SavedIsVersion' /\ OneVersionEach' /\ SuccessIsBacked' /\ Choice' = Choice
  BY <1>1, <1>3, RowsKept
<1>5. TablesTyped'
  BY <1>1, <1>2 DEF AdoptionInv, TablesTyped, ExecsTypeOK, Claiming, Arriving, SimpleDirection
<1>6. PressAtWork'
  BY <1>1, <1>2, <1>3, <1>4 DEF AdoptionInv, PressAtWork, RecordedResult, Claiming, Selecting,
       Untouched, Arriving
<1>7. OthersAreSettled' /\ UnsettledIsOnRecord' /\ VersionIsNamed' /\ FinalCloses' /\ SelectionIsOwned'
  BY <1>1, <1>2, <1>3 DEF OthersAreSettled, UnsettledIsOnRecord, VersionIsNamed, FinalCloses,
     SelectionIsOwned, Settled, SimpleDirection
<1> QED BY <1>4, <1>5, <1>6, <1>7 DEF AdoptionInv

(* The bookkeeping after the write faults, once or for good. *)
LEMMA BookkeepingFaultKeeps ==
  ASSUME AdoptionInv,
         \/ (MarkCommitted /\ UNCHANGED portfolioVars /\ Proceed("reconcile"))
         \/ (ReconcileCommitted /\ UNCHANGED portfolioVars /\ Proceed("abandon"))
  PROVE  AdoptionInv'
<1>1. /\ UNCHANGED <<execs, workflow, status, selected, expected, offers, patch, versions,
                     activeVersion, pressed, target, before, prior, undone, crashes>>
      /\ at \in {"mark", "reconcile"} /\ at' \in {"reconcile", "abandon"}
  BY DEF MarkCommitted, ReconcileCommitted, Proceed, portfolioVars, writerVars, pressVars
<1>2. RowsOfChoices' /\ PressesInOrder' /\ SavedIsVersion' /\ OneVersionEach' /\ SuccessIsBacked' /\ Choice' = Choice
  BY <1>1, RowsKept DEF Settled
<1>3. UnsettledIsOnRecord' /\ FinalCloses' /\ VersionIsNamed'
  BY <1>1, PortfolioKept
<1>4. TablesTyped' /\ PressAtWork'
  BY <1>1, <1>2 DEF AdoptionInv, TablesTyped, ExecsTypeOK, PressAtWork, Claiming, Selecting,
       Untouched, Arriving
<1>5. OthersAreSettled' /\ SelectionIsOwned'
  BY <1>1 DEF AdoptionInv, OthersAreSettled, SelectionIsOwned, VersionsOf, Settled, Selecting
<1> QED BY <1>2, <1>3, <1>4, <1>5 DEF AdoptionInv

LEMMA ExpirePortfolioKeeps ==
  ASSUME AdoptionInv, ExpirePortfolio
  PROVE  AdoptionInv'
<1>1. /\ UNCHANGED <<execs, workflow, selected, expected, patch, versions, activeVersion, pressed,
                     target, before, prior, at, undone, crashes>>
      /\ at \in {"idle", "load", "commit"} /\ status = "awaiting_selection" /\ status' = "expired"
      /\ offers' = [p \in Proposals |-> IF offers[p] = "offered" THEN "expired" ELSE offers[p]]
  BY DEF ExpirePortfolio, writerVars, pressVars
<1>2. \A p \in Proposals : Settled(p)' <=> Settled(p)
  BY <1>1 DEF Settled
<1>3. RowsOfChoices' /\ PressesInOrder' /\ SavedIsVersion' /\ OneVersionEach' /\ SuccessIsBacked' /\ Choice' = Choice
  BY <1>1, <1>2, RowsKept
<1>4. TablesTyped' /\ PressAtWork'
  BY <1>1, <1>3 DEF AdoptionInv, TablesTyped, ExecsTypeOK, PressAtWork, Claiming, Selecting,
       Untouched, Arriving
<1>5. OthersAreSettled' /\ UnsettledIsOnRecord' /\ SelectionIsOwned'
  BY <1>1 DEF OthersAreSettled, UnsettledIsOnRecord, SelectionIsOwned, Selecting
<1>6. FinalCloses' /\ VersionIsNamed'
  BY <1>1, <1>2 DEF AdoptionInv, FinalCloses, VersionIsNamed, VersionsOf, Settled, SimpleDirection
<1> QED BY <1>3, <1>4, <1>5, <1>6 DEF AdoptionInv


----------------------------------------------------------------------------
(* The execution row of the choice. *)

(* A step on the row of the choice at work that leaves its claim in place; *)
(* the press is answered, or goes on to its own claim.                     *)
LEMMA RowStep ==
  ASSUME AdoptionInv,
         UNCHANGED <<portfolioVars, writerVars, pressVars, crashes>>, ExecsTypeOK', at # "idle",
         \A p \in Proposals \ {Choice} : execs'[p] = execs[p],
         execs'[Choice].kind = execs[Choice].kind, execs'[Choice].turn = execs[Choice].turn,
         execs'[Choice].unstarted = FALSE, execs'[Choice].status # "none",
         \/ execs'[Choice].result \in {execs[Choice].result, NoVersion}
         \/ execs'[Choice].result \in VersionsOf(Choice) /\ at' = "idle",
         execs'[Choice].status = "succeeded" => execs'[Choice].result \in VersionsOf(Choice) /\ Settled(Choice),
         \/ at \notin {"persist", "save", "undo", "release"} /\ at' = "idle"
         \/ at = "released" /\ at' = "claim"
  PROVE  AdoptionInv'
<1> USE AdoptionConstants
<1>1. Choice \in Proposals /\ Choice' = Choice /\ NoVersion \notin Presses
  BY DEF AdoptionInv, PressesInOrder, TablesTyped, Choice, Presses, pressVars
<1>2. UNCHANGED <<workflow, status, selected, expected, offers, patch, versions, activeVersion,
                  undone, pressed, target, before, prior>>
  BY DEF portfolioVars, writerVars, pressVars
<1>3. UnsettledIsOnRecord' /\ FinalCloses' /\ VersionIsNamed'
  BY <1>2, PortfolioKept
<1>4. TablesTyped' /\ PressesInOrder' /\ SavedIsVersion'
  BY <1>2 DEF AdoptionInv, TablesTyped, PressesInOrder, SavedIsVersion, Arriving
<1>5. RowsOfChoices'
  <2>1. \A p \in Proposals : VersionsOf(p)' = VersionsOf(p)
    BY <1>2 DEF VersionsOf
  <2>2. execs'[Choice].result # NoVersion =>
          execs'[Choice].result \in Presses /\ target[execs'[Choice].result] = Choice
    BY <1>1 DEF AdoptionInv, RowsOfChoices, VersionsOf
  <2>3. at' # "idle" => execs'[Choice].result # pressed
    <3>1. at # "idle" => pressed \in Presses
      BY DEF AdoptionInv, PressesInOrder
    <3> QED BY <1>1, <3>1 DEF AdoptionInv, RowsOfChoices
  <2> QED BY <1>1, <1>2, <2>1, <2>2, <2>3 DEF AdoptionInv, RowsOfChoices, Strict
<1>6. PressAtWork' /\ OthersAreSettled'
  BY <1>2 DEF AdoptionInv, PressAtWork, OthersAreSettled, Claiming, Selecting, Untouched, Arriving
<1>7. SelectionIsOwned' /\ OneVersionEach'
  BY <1>1, <1>2 DEF AdoptionInv, SelectionIsOwned, OneVersionEach, VersionsOf, Strict,
       SimpleDirection
<1>8. SuccessIsBacked'
  BY <1>1, <1>2 DEF AdoptionInv, SuccessIsBacked, VersionsOf, Settled
<1> QED BY <1>3, <1>4, <1>5, <1>6, <1>7, <1>8 DEF AdoptionInv

(* The row left alone by the last step of a press. *)
LEMMA AnsweredKeeps ==
  ASSUME AdoptionInv, UNCHANGED <<execs, portfolioVars, writerVars, pressVars, crashes>>, at # "idle",
         \/ at \notin {"persist", "save", "undo", "release"} /\ at' = "idle"
         \/ at = "released" /\ at' = "claim"
  PROVE  AdoptionInv'
<1>1. UNCHANGED <<execs, workflow, status, selected, expected, offers, patch, versions, activeVersion, pressed, target,
                  before, prior, undone, crashes>>
  BY DEF portfolioVars, writerVars, pressVars
<1>2. RowsOfChoices' /\ PressesInOrder' /\ SavedIsVersion' /\ OneVersionEach' /\ SuccessIsBacked' /\ Choice' = Choice
  BY <1>1, RowsKept DEF Settled
<1>3. UnsettledIsOnRecord' /\ FinalCloses' /\ VersionIsNamed'
  BY <1>1, PortfolioKept
<1>4. TablesTyped' /\ PressAtWork' /\ OthersAreSettled'
  BY <1>1, <1>2 DEF AdoptionInv, TablesTyped, ExecsTypeOK, PressAtWork, OthersAreSettled,
       Claiming, Selecting, Untouched, Arriving
<1>5. SelectionIsOwned'
  BY <1>1 DEF AdoptionInv, SelectionIsOwned, VersionsOf
<1> QED BY <1>2, <1>3, <1>4, <1>5 DEF AdoptionInv

(* What the operators of the choice table do to the row of a choice.       *)
LEMMA ClaimedRow ==
  ASSUME ExecsTypeOK, NEW ch \in Choices, NEW r \in Claimants,
         NEW b \in Versions \cup {NoVersion}, NEW v \in Versions \cup {NoVersion},
         "guide" \notin execs[ch].kind, ~execs[ch].unstarted,
         InsertClaim(ch, r, b, v) \/ ReclaimExpired(ch, r) \/ RetryFailed(ch, r)
  PROVE  /\ ExecsTypeOK' /\ \A p \in Choices \ {ch} : execs'[p] = execs[p]
         /\ execs'[ch].kind = execs[ch].kind /\ execs'[ch].turn = r
         /\ execs'[ch].unstarted = FALSE /\ execs'[ch].status = "executing"
         /\ execs'[ch].result \in {execs[ch].result, NoVersion}
         /\ Strict(ch) => execs[ch].status = "none"
<1>0. execs[ch] \in Exec
  BY DEF ExecsTypeOK
<1>1. CASE InsertClaim(ch, r, b, v)
  <2>1. Fresh(ch, r, b, v) \in Exec
    BY <1>0 DEF Fresh, Exec, ExecStatus
  <2>2. execs' = [execs EXCEPT ![ch] = Fresh(ch, r, b, v)] /\ execs[ch].status = "none"
    BY <1>1 DEF InsertClaim
  <2>3. execs'[ch] = Fresh(ch, r, b, v)
    BY <2>2 DEF ExecsTypeOK
  <2> QED BY <2>1, <2>2, <2>3 DEF ExecsTypeOK, Fresh
<1>2. CASE ReclaimExpired(ch, r)
  <2> DEFINE row == [execs[ch] EXCEPT !.turn = r]
  <2>1. row \in Exec
    BY <1>0 DEF Exec
  <2>2. execs' = [execs EXCEPT ![ch] = row] /\ execs'[ch] = row
    BY <1>2 DEF ReclaimExpired, ExecsTypeOK
  <2>3. execs[ch].status = "executing" /\ ~Strict(ch)
    BY <1>2 DEF ReclaimExpired
  <2>4. /\ row.kind = execs[ch].kind /\ row.turn = r /\ row.unstarted = execs[ch].unstarted
        /\ row.status = execs[ch].status /\ row.result = execs[ch].result
        /\ execs[ch].unstarted \in BOOLEAN
    BY <1>0 DEF Exec
  <2> HIDE DEF row
  <2> QED BY <2>1, <2>2, <2>3, <2>4 DEF ExecsTypeOK
<1>3. CASE RetryFailed(ch, r)
  <2> DEFINE row == [execs[ch] EXCEPT !.status = "executing", !.turn = r, !.unstarted = FALSE]
  <2>1. row \in Exec
    BY <1>0 DEF Exec, ExecStatus
  <2>2. execs' = [execs EXCEPT ![ch] = row] /\ execs'[ch] = row
    BY <1>3 DEF RetryFailed, ExecsTypeOK
  <2>3. ~Strict(ch)
    BY <1>3 DEF RetryFailed
  <2>4. /\ row.kind = execs[ch].kind /\ row.turn = r /\ row.unstarted = FALSE
        /\ row.status = "executing" /\ row.result = execs[ch].result
    BY <1>0 DEF Exec
  <2> HIDE DEF row
  <2> QED BY <2>1, <2>2, <2>3, <2>4 DEF ExecsTypeOK
<1> QED BY <1>1, <1>2, <1>3

LEMMA FinishedRow ==
  ASSUME ExecsTypeOK, NEW ch \in Choices, NEW st \in {"succeeded", "failed_retryable"},
         NEW v \in Versions \cup {NoVersion}, FinishExecution(ch, st, v)
  PROVE  /\ ExecsTypeOK' /\ \A p \in Choices \ {ch} : execs'[p] = execs[p]
         /\ execs'[ch].kind = execs[ch].kind /\ execs'[ch].turn = execs[ch].turn
         /\ execs'[ch].unstarted = FALSE /\ execs'[ch].status = st
         /\ execs'[ch].result = IF v = NoVersion THEN execs[ch].result ELSE v
<1> DEFINE row == [execs[ch] EXCEPT !.status = st, !.result = IF v = NoVersion THEN @ ELSE v,
                                    !.unstarted = FALSE]
<1>0. execs[ch] \in Exec
  BY DEF ExecsTypeOK
<1>1. row \in Exec
  BY <1>0 DEF Exec, ExecStatus
<1>2. execs' = [execs EXCEPT ![ch] = row] /\ execs'[ch] = row
  BY DEF FinishExecution, ExecsTypeOK
<1>3. /\ row.kind = execs[ch].kind /\ row.turn = execs[ch].turn /\ row.unstarted = FALSE
      /\ row.status = st /\ row.result = IF v = NoVersion THEN execs[ch].result ELSE v
  BY <1>0 DEF Exec
<1> HIDE DEF row
<1> QED BY <1>1, <1>2, <1>3 DEF ExecsTypeOK

LEMMA CancelledRow ==
  ASSUME ExecsTypeOK, NEW ch \in Choices, CancelExecution(ch)
  PROVE  /\ ExecsTypeOK' /\ \A p \in Choices \ {ch} : execs'[p] = execs[p]
         /\ execs'[ch].kind = execs[ch].kind /\ execs'[ch].turn = execs[ch].turn
         /\ execs'[ch].unstarted = execs[ch].unstarted /\ execs'[ch].status = "cancelled"
         /\ execs'[ch].result = NoVersion
<1> DEFINE row == [execs[ch] EXCEPT !.status = "cancelled", !.result = NoVersion]
<1>0. execs[ch] \in Exec
  BY DEF ExecsTypeOK
<1>1. row \in Exec
  BY <1>0 DEF Exec, ExecStatus
<1>2. execs' = [execs EXCEPT ![ch] = row] /\ execs'[ch] = row
  BY DEF CancelExecution, ExecsTypeOK
<1>3. /\ row.kind = execs[ch].kind /\ row.turn = execs[ch].turn
      /\ row.unstarted = execs[ch].unstarted /\ row.status = "cancelled" /\ row.result = NoVersion
  BY <1>0 DEF Exec
<1> HIDE DEF row
<1> QED BY <1>1, <1>2, <1>3 DEF ExecsTypeOK

LEMMA EndRowKeeps ==
  ASSUME AdoptionInv,
         \/ RecoverExecution \/ ReleaseStaleExecution \/ FinishChoice \/ AbandonChoice
         \/ (CancelSeen /\ at = "claim")
  PROVE  AdoptionInv'
<1> USE AdoptionConstants
<1>1. /\ UNCHANGED <<portfolioVars, writerVars, pressVars, crashes>> /\ at # "idle"
      /\ \/ at \notin {"persist", "save", "undo", "release"} /\ at' = "idle"
         \/ at = "released" /\ at' = "claim"
  BY DEF RecoverExecution, ReleaseStaleExecution, CancelSeen, FinishChoice, AbandonChoice,
       Answer, Proceed
<1>2. Choice \in Proposals /\ pressed \in Presses /\ ~execs[Choice].unstarted /\ NoVersion \notin Presses
  BY <1>1 DEF AdoptionInv, PressesInOrder, TablesTyped, RowsOfChoices, Choice, Presses
<1>3. CASE execs' = execs
  BY <1>1, <1>3, AnsweredKeeps
<1>4. CASE FinishExecution(Choice, "failed_retryable", NoVersion)
  <2>1. /\ ExecsTypeOK' /\ \A p \in Proposals \ {Choice} : execs'[p] = execs[p]
        /\ execs'[Choice].kind = execs[Choice].kind /\ execs'[Choice].turn = execs[Choice].turn
        /\ execs'[Choice].unstarted = FALSE /\ execs'[Choice].status = "failed_retryable"
        /\ execs'[Choice].result = execs[Choice].result
    BY <1>2, <1>4, FinishedRow DEF AdoptionInv, TablesTyped, Proposals
  <2> QED BY <1>1, <2>1, RowStep
<1>5. ASSUME NEW v \in VersionsOf(Choice), Settled(Choice), at' = "idle",
             FinishExecution(Choice, "succeeded", v)
      PROVE  AdoptionInv'
  <2>1. /\ ExecsTypeOK' /\ \A p \in Proposals \ {Choice} : execs'[p] = execs[p]
        /\ execs'[Choice].kind = execs[Choice].kind /\ execs'[Choice].turn = execs[Choice].turn
        /\ execs'[Choice].unstarted = FALSE /\ execs'[Choice].status = "succeeded"
        /\ execs'[Choice].result = v
    <3>1. v # NoVersion /\ v \in Versions
      BY <1>2 DEF VersionsOf, Presses
    <3>2. ExecsTypeOK /\ Choice \in Choices
      BY <1>2 DEF AdoptionInv, TablesTyped, Proposals
    <3>3. /\ ExecsTypeOK' /\ \A p \in Choices \ {Choice} : execs'[p] = execs[p]
          /\ execs'[Choice].kind = execs[Choice].kind /\ execs'[Choice].turn = execs[Choice].turn
          /\ execs'[Choice].unstarted = FALSE /\ execs'[Choice].status = "succeeded"
          /\ execs'[Choice].result = v
      <4>1. v \in Versions \cup {NoVersion} /\ "succeeded" \in {"succeeded", "failed_retryable"}
        BY <3>1
      <4>2. /\ ExecsTypeOK' /\ \A p \in Choices \ {Choice} : execs'[p] = execs[p]
            /\ execs'[Choice].kind = execs[Choice].kind /\ execs'[Choice].turn = execs[Choice].turn
            /\ execs'[Choice].unstarted = FALSE /\ execs'[Choice].status = "succeeded"
            /\ execs'[Choice].result = IF v = NoVersion THEN execs[Choice].result ELSE v
        BY <1>5, <3>2, <4>1, FinishedRow, Zenon
      <4> QED BY <3>1, <4>2
    <3> QED BY <1>2, <3>3 DEF Proposals
  <2> QED BY <1>1, <1>5, <2>1, RowStep
<1>7. CASE RecoverExecution
  <2>1. RecordedResult(Choice) \in VersionsOf(Choice) /\ Settled(Choice) /\ at' = "idle"
    BY <1>2, <1>7, RecordedIsVersion DEF AdoptionInv, PressAtWork, RecoverExecution, Answer
  <2>2. execs' = execs \/ FinishExecution(Choice, "succeeded", RecordedResult(Choice))
    BY <1>7 DEF RecoverExecution
  <2> QED BY <1>3, <1>5, <2>1, <2>2
<1>8. CASE FinishChoice
  <2>1. pressed \in VersionsOf(Choice) /\ Settled(Choice) /\ at' = "idle"
    BY <1>2, <1>8 DEF AdoptionInv, PressAtWork, FinishChoice, VersionsOf, Choice, Answer
  <2> QED BY <1>3, <1>5, <1>8, <2>1 DEF FinishChoice
<1> QED BY <1>3, <1>4, <1>7, <1>8 DEF ReleaseStaleExecution, CancelSeen, AbandonChoice

(* A press that ends outside the guarded block takes back what the presses *)
(* of its choice have written; their versions are all among that.          *)
LEMMA UndoKeeps ==
  ASSUME AdoptionInv, FailOutside \/ (CancelSeen /\ at = "fence")
  PROVE  AdoptionInv'
<1> USE AdoptionConstants
<1> DEFINE gone == WrittenFor(Choice)
<1>1. /\ UNCHANGED <<workflow, status, selected, expected, offers, pressed, target, before, prior,
                     crashes>>
      /\ at \in {"facts", "fence", "finish"} /\ at' = "idle"
      /\ activeVersion' \in {activeVersion, execs[Choice].base, NoVersion}
      /\ versions' = versions \ gone /\ undone' = undone \cup gone
      /\ patch' = [r \in Presses |-> IF r \in gone THEN "none" ELSE patch[r]]
  BY DEF CancelSeen, FailOutside, UndoWrites, Answer, portfolioVars, pressVars
<1>2. /\ Choice \in Proposals /\ Choice \in Choices /\ Choice' = Choice
      /\ pressed \in Presses /\ ~execs[Choice].unstarted
  BY <1>1 DEF AdoptionInv, PressesInOrder, TablesTyped, RowsOfChoices, Choice, Presses, Proposals
<1>3. /\ ExecsTypeOK' /\ \A p \in Proposals \ {Choice} : execs'[p] = execs[p]
      /\ execs'[Choice].kind = execs[Choice].kind /\ execs'[Choice].turn = execs[Choice].turn
      /\ ~execs'[Choice].unstarted /\ execs'[Choice].status \in {"cancelled", "failed_retryable"}
      /\ execs'[Choice].result = NoVersion
  <2>1. ExecsTypeOK
    BY DEF AdoptionInv, TablesTyped
  <2>2. CASE CancelExecution(Choice)
    BY <1>2, <2>1, <2>2, CancelledRow DEF Proposals
  <2>3. CASE FailOutside
    <3> DEFINE row == [execs[Choice] EXCEPT !.status = "failed_retryable", !.result = NoVersion]
    <3>1. execs[Choice] \in Exec
      BY <1>2, <2>1 DEF ExecsTypeOK
    <3>2. row \in Exec
      BY <3>1 DEF Exec, ExecStatus
    <3>3. execs' = [execs EXCEPT ![Choice] = row] /\ execs'[Choice] = row
      BY <1>2, <2>1, <2>3 DEF FailOutside, ExecsTypeOK
    <3>4. /\ row.kind = execs[Choice].kind /\ row.turn = execs[Choice].turn
          /\ row.unstarted = execs[Choice].unstarted
          /\ row.status = "failed_retryable" /\ row.result = NoVersion
      BY <3>1 DEF Exec
    <3> HIDE DEF row
    <3> QED BY <1>2, <2>1, <3>2, <3>3, <3>4 DEF ExecsTypeOK, Proposals
  <2> QED BY <1>1, <2>2, <2>3 DEF CancelSeen
<1>4. /\ gone \subseteq Presses /\ \A r \in gone : target[r] = Choice
      /\ VersionsOf(Choice) \subseteq gone
  BY DEF WrittenFor, VersionsOf, AdoptionInv, SavedIsVersion
<1> HIDE DEF gone
<1>5. \A r \in Presses : patch'[r] = IF r \in gone THEN "none" ELSE patch[r]
  BY <1>1
<1>6. /\ VersionsOf(Choice)' = {}
      /\ \A p \in Proposals \cup {NoProposal} : p # Choice => VersionsOf(p)' = VersionsOf(p)
  <2>1. \A p : VersionsOf(p)' = VersionsOf(p) \ gone
    BY <1>1 DEF VersionsOf
  <2>2. \A p : p # Choice => VersionsOf(p) \cap gone = {}
    BY <1>4 DEF VersionsOf
  <2> QED BY <1>2, <1>4, <2>1, <2>2
<1>7. TablesTyped'
  <2>1. activeVersion' \in Versions \cup {NoVersion}
    BY <1>1, <1>2 DEF AdoptionInv, TablesTyped, ExecsTypeOK, Exec
  <2>2. patch' \in [Presses -> {"none", "open", "saved"}]
    BY <1>1 DEF AdoptionInv, TablesTyped
  <2> QED BY <1>1, <1>3, <1>4, <2>1, <2>2 DEF AdoptionInv, TablesTyped
<1>8. PressesInOrder'
  <2>1. \A r \in gone : r <= pressed
    BY <1>2, <1>4, PressesAreNumbered DEF AdoptionInv, PressesInOrder, Presses, Proposals
  <2> QED BY <1>1, <1>5, <2>1 DEF AdoptionInv, PressesInOrder
<1>9. SavedIsVersion'
  BY <1>1, <1>5 DEF AdoptionInv, SavedIsVersion
<1>10. RowsOfChoices'
  BY <1>1, <1>2, <1>3, <1>6 DEF AdoptionInv, RowsOfChoices, Strict
<1>11. PressAtWork' /\ OthersAreSettled'
  BY <1>1 DEF PressAtWork, OthersAreSettled, Untouched, Arriving, Claiming, Selecting
<1>12. UnsettledIsOnRecord' /\ VersionIsNamed' /\ FinalCloses'
  <2>1. Settled(selected)' = Settled(selected) /\ selected \in Proposals \cup {NoProposal}
    BY <1>1 DEF Settled, AdoptionInv, TablesTyped
  <2>2. \A q \in Presses : patch'[q] # "none" => patch[q] # "none"
    BY <1>5
  <2>3. UnsettledIsOnRecord'
    BY <1>1, <1>2, <1>6, <2>1, <2>2 DEF AdoptionInv, UnsettledIsOnRecord
  <2>4. VersionIsNamed' /\ FinalCloses'
    BY <1>1, <1>2, <1>6 DEF AdoptionInv, VersionIsNamed, FinalCloses, Settled, SimpleDirection
  <2> QED BY <2>3, <2>4
<1>13. SelectionIsOwned'
  <2> SUFFICES ASSUME crashes = 0, status = "committing"
               PROVE  VersionsOf(selected)' # {} \/ \E r \in undone' : target[r] = selected
    BY <1>1 DEF SelectionIsOwned
  <2>1. VersionsOf(selected) # {} \/ \E r \in undone : target[r] = selected
    BY <1>1 DEF AdoptionInv, SelectionIsOwned
  <2>2. CASE selected = Choice
    BY <1>1, <1>4, <2>1, <2>2
  <2>3. CASE selected # Choice
    <3>1. VersionsOf(selected)' = VersionsOf(selected)
      BY <1>1, <1>6, <2>3 DEF AdoptionInv, TablesTyped, VersionsOf
    <3> QED BY <1>1, <2>1, <3>1
  <2> QED BY <2>2, <2>3
<1>14. OneVersionEach' /\ SuccessIsBacked'
  BY <1>1, <1>2, <1>3, <1>6 DEF AdoptionInv, OneVersionEach, SuccessIsBacked, Strict,
       SimpleDirection
<1> QED BY <1>7, <1>8, <1>9, <1>10, <1>11, <1>12, <1>13, <1>14 DEF AdoptionInv

LEMMA ClaimChoiceKeeps ==
  ASSUME AdoptionInv, ClaimChoice
  PROVE  AdoptionInv'
<1> USE AdoptionConstants
<1>1. /\ UNCHANGED <<workflow, status, selected, expected, offers, patch, versions, activeVersion,
                     pressed, target, prior, undone, crashes>>
      /\ at = "claim" /\ at' = "facts" /\ before' = activeVersion
  BY DEF ClaimChoice, Proceed, portfolioVars, writerVars
<1>2. /\ Choice \in Proposals /\ Choice' = Choice /\ pressed \in Presses /\ pressed \in Claimants
      /\ pressed # Nobody /\ NoVersion \notin Presses
  BY <1>1 DEF AdoptionInv, PressesInOrder, TablesTyped, Choice, Presses
<1>3. /\ ExecsTypeOK' /\ \A p \in Proposals \ {Choice} : execs'[p] = execs[p]
      /\ execs'[Choice].kind = execs[Choice].kind /\ execs'[Choice].turn = pressed
      /\ execs'[Choice].unstarted = FALSE /\ execs'[Choice].status = "executing"
      /\ execs'[Choice].result \in {execs[Choice].result, NoVersion}
      /\ Strict(Choice) => execs[Choice].status = "none"
  <2>1. PICK b \in Versions \cup {NoVersion} :
          \/ InsertClaim(Choice, pressed, b, activeVersion)
          \/ ReclaimExpired(Choice, pressed) \/ RetryFailed(Choice, pressed)
    BY DEF ClaimChoice, AdoptionInv, TablesTyped
  <2>2. ExecsTypeOK /\ activeVersion \in Versions \cup {NoVersion}
    BY DEF AdoptionInv, TablesTyped
  <2>3. "guide" \notin execs[Choice].kind /\ ~execs[Choice].unstarted
    BY <1>2 DEF AdoptionInv, RowsOfChoices
  <2> QED BY <1>2, <2>1, <2>2, <2>3, ClaimedRow DEF Proposals
<1>4. UnsettledIsOnRecord' /\ FinalCloses' /\ VersionIsNamed'
  BY <1>1, PortfolioKept
<1>5. TablesTyped' /\ PressesInOrder' /\ SavedIsVersion'
  BY <1>1, <1>3 DEF AdoptionInv, TablesTyped, PressesInOrder, SavedIsVersion, Claiming
<1>6. RowsOfChoices'
  <2>1. \A p \in Proposals : VersionsOf(p)' = VersionsOf(p)
    BY <1>1 DEF VersionsOf
  <2>2. Strict(Choice) => VersionsOf(Choice) = {}
    BY <1>2, <1>3 DEF AdoptionInv, RowsOfChoices, VersionsOf, Presses
  <2> QED BY <1>1, <1>2, <1>3, <2>1, <2>2 DEF AdoptionInv, RowsOfChoices, Strict
<1>7. PressAtWork' /\ OthersAreSettled'
  BY <1>1, <1>2, <1>3 DEF AdoptionInv, PressAtWork, OthersAreSettled, Claiming, Selecting,
       Untouched, Arriving
<1>8. SelectionIsOwned' /\ OneVersionEach'
  BY <1>1, <1>2, <1>3 DEF AdoptionInv, SelectionIsOwned, OneVersionEach, VersionsOf, Strict,
       SimpleDirection
<1>9. SuccessIsBacked'
  BY <1>1, <1>2, <1>3 DEF AdoptionInv, SuccessIsBacked, VersionsOf, Settled
<1> QED BY <1>4, <1>5, <1>6, <1>7, <1>8, <1>9 DEF AdoptionInv

----------------------------------------------------------------------------
(* The writer, and the undoing of what it wrote. *)

LEMMA PersistOperationsKeeps ==
  ASSUME AdoptionInv, PersistOperations
  PROVE  AdoptionInv'
<1>1. /\ UNCHANGED <<execs, workflow, status, selected, expected, offers, versions, activeVersion,
                     pressed, target, before, prior, undone, crashes>>
      /\ at = "persist"
      /\ \/ BaseStands /\ patch' = [patch EXCEPT ![pressed] = "open"] /\ at' = "save"
         \/ patch' = patch /\ at' = "undo"
  BY DEF PersistOperations, Proceed, portfolioVars, pressVars
<1>2. /\ Choice \in Proposals /\ Choice' = Choice /\ pressed \in Presses /\ pressed \notin versions
      /\ status = "committing" /\ selected = Choice
  BY <1>1 DEF AdoptionInv, PressesInOrder, PressAtWork, Untouched, Selecting, SavedIsVersion,
     TablesTyped, Choice, Presses
<1>3. \A r \in Presses : patch'[r] = patch[r] \/ (r = pressed /\ patch'[r] = "open")
  BY <1>1, <1>2 DEF AdoptionInv, TablesTyped
<1>4. PressesInOrder' /\ SavedIsVersion' /\ RowsOfChoices' /\ OneVersionEach' /\ SuccessIsBacked'
  <2>1. PressesInOrder'
    BY <1>1, <1>2, <1>3, PressesAreNumbered DEF AdoptionInv, PressesInOrder, Presses
  <2>2. SavedIsVersion'
    BY <1>1, <1>2, <1>3 DEF AdoptionInv, SavedIsVersion
  <2>3. RowsOfChoices' /\ OneVersionEach' /\ SuccessIsBacked'
    BY <1>1, <1>2 DEF AdoptionInv, RowsOfChoices, OneVersionEach, SuccessIsBacked, VersionsOf,
         Strict, SimpleDirection
  <2> QED BY <2>1, <2>2, <2>3
<1>5. TablesTyped'
  BY <1>1, <1>2 DEF AdoptionInv, TablesTyped, ExecsTypeOK, Claiming, Arriving
<1>6. PressAtWork'
  BY <1>1, <1>2 DEF AdoptionInv, PressAtWork, BaseStands, Claiming, Selecting, Untouched, Arriving
<1>7. OthersAreSettled' /\ UnsettledIsOnRecord'
  <2>1. VersionsOf(Choice) \ {pressed} # {} => Settled(Choice)
    BY <1>1, <1>2 DEF AdoptionInv, OthersAreSettled, Selecting
  <2>2. VersionsOf(Choice) # {} => Settled(Choice)
    BY <1>2, <2>1 DEF VersionsOf
  <2> QED BY <1>1, <1>2, <2>2 DEF AdoptionInv, OthersAreSettled, UnsettledIsOnRecord, VersionsOf,
             Settled, Selecting
<1>8. FinalCloses' /\ SelectionIsOwned' /\ VersionIsNamed'
  BY <1>1 DEF AdoptionInv, FinalCloses, SelectionIsOwned, VersionIsNamed, VersionsOf, Settled,
     SimpleDirection
<1> QED BY <1>4, <1>5, <1>6, <1>7, <1>8 DEF AdoptionInv

LEMMA PersistVersionKeeps ==
  ASSUME AdoptionInv, PersistVersion
  PROVE  AdoptionInv'
<1> USE AdoptionConstants
<1>1. /\ UNCHANGED <<execs, workflow, status, selected, expected, offers, pressed, target, before,
                     prior, undone, crashes>>
      /\ at = "save" /\ at' = "verify" /\ versions' = versions \cup {pressed} /\ activeVersion' = pressed
      /\ patch' = [patch EXCEPT ![pressed] = "saved"]
  BY DEF PersistVersion, Proceed, portfolioVars, pressVars
<1>2. /\ Choice \in Proposals /\ Choice' = Choice /\ pressed \in Presses /\ pressed \in Versions
      /\ status = "committing" /\ selected = Choice /\ execs[Choice].turn = pressed
  BY <1>1 DEF AdoptionInv, PressesInOrder, PressAtWork, Claiming, Selecting, TablesTyped,
       Choice, Presses
<1>3. \A r \in Presses : patch'[r] = IF r = pressed THEN "saved" ELSE patch[r]
  BY <1>1, <1>2 DEF AdoptionInv, TablesTyped
<1>4. /\ VersionsOf(Choice)' = VersionsOf(Choice) \cup {pressed}
      /\ \A p \in Proposals \ {Choice} : VersionsOf(p)' = VersionsOf(p)
  BY <1>1, <1>2 DEF VersionsOf, Choice
<1>5. VersionsOf(Choice) \ {pressed} # {} => Settled(Choice)
  BY <1>1, <1>2 DEF AdoptionInv, OthersAreSettled, Selecting
<1>6. PressesInOrder'
  BY <1>1, <1>2, <1>3, PressesAreNumbered DEF AdoptionInv, PressesInOrder, Presses
<1>7. SavedIsVersion'
  BY <1>1, <1>2, <1>3 DEF AdoptionInv, SavedIsVersion
<1>8. TablesTyped'
  BY <1>1, <1>2 DEF AdoptionInv, TablesTyped, ExecsTypeOK, Claiming
<1>9. RowsOfChoices'
  BY <1>1, <1>2, <1>4 DEF AdoptionInv, RowsOfChoices, Strict
<1>10. PressAtWork' /\ OthersAreSettled'
  BY <1>1, <1>2, <1>4 DEF AdoptionInv, PressAtWork, OthersAreSettled, Settled, Claiming, Selecting,
     Untouched, Arriving
<1>11. UnsettledIsOnRecord'
  <2> SUFFICES ASSUME ~Settled(Choice), NEW q \in Presses, target[q] = Choice PROVE q <= pressed
    BY <1>1, <1>2, <1>4, <1>5 DEF UnsettledIsOnRecord, Settled
  <2> QED BY <1>2, PressesAreNumbered DEF AdoptionInv, PressesInOrder, Presses, Proposals
<1>12. FinalCloses' /\ SelectionIsOwned' /\ VersionIsNamed'
  BY <1>1, <1>2, <1>4 DEF AdoptionInv, FinalCloses, SelectionIsOwned, VersionIsNamed, Settled,
     SimpleDirection
<1>13. OneVersionEach'
  <2>1. ~SimpleDirection => VersionsOf(Choice)' = {pressed}
    BY <1>1, <1>2, <1>4, <1>5 DEF AdoptionInv, FinalCloses
  <2>2. Strict(Choice) => \A r \in VersionsOf(Choice)' : r = pressed
    BY <1>2, <1>4 DEF AdoptionInv, RowsOfChoices
  <2> QED BY <1>1, <1>2, <1>4, <2>1, <2>2 DEF AdoptionInv, OneVersionEach, Strict, SimpleDirection
<1>14. SuccessIsBacked'
  BY <1>1, <1>2, <1>4 DEF AdoptionInv, SuccessIsBacked
<1> QED BY <1>6, <1>7, <1>8, <1>9, <1>10, <1>11, <1>12, <1>13, <1>14 DEF AdoptionInv

LEMMA UndoPersistKeeps ==
  ASSUME AdoptionInv, UndoPersist
  PROVE  AdoptionInv'
<1> USE AdoptionConstants
<1>1. /\ UNCHANGED <<workflow, status, selected, expected, offers, pressed, target, before, prior,
                     undone, crashes>>
      /\ at = "undo" /\ at' = "release" /\ versions' = versions \ {pressed} /\ activeVersion' = before
      /\ patch' = [patch EXCEPT ![pressed] = "none"]
  BY DEF UndoPersist, Proceed, portfolioVars, pressVars
<1>2. execs' = execs
  <2>1. \A p \in Choices : execs[p].result # pressed
    BY <1>1 DEF AdoptionInv, RowsOfChoices, Proposals
  <2> QED BY <2>1 DEF UndoPersist, AdoptionInv, TablesTyped, ExecsTypeOK
<1>3. /\ Choice \in Proposals /\ Choice' = Choice /\ pressed \in Presses
      /\ status = "committing" /\ selected = Choice
  BY <1>1 DEF AdoptionInv, PressesInOrder, PressAtWork, Selecting, TablesTyped, Choice, Presses
<1>4. \A r \in Presses : patch'[r] = IF r = pressed THEN "none" ELSE patch[r]
  BY <1>1, <1>3 DEF AdoptionInv, TablesTyped
<1>5. \A p \in Proposals : VersionsOf(p)' = VersionsOf(p) \ {pressed}
  BY <1>1 DEF VersionsOf
<1>6. VersionsOf(Choice) \ {pressed} # {} => Settled(Choice)
  BY <1>1, <1>3 DEF AdoptionInv, OthersAreSettled, Selecting
<1>7. PressesInOrder'
  BY <1>1, <1>3, <1>4, PressesAreNumbered DEF AdoptionInv, PressesInOrder, Presses
<1>8. SavedIsVersion'
  BY <1>1, <1>3, <1>4 DEF AdoptionInv, SavedIsVersion
<1>9. TablesTyped'
  BY <1>1, <1>2, <1>3 DEF AdoptionInv, TablesTyped, ExecsTypeOK, Claiming
<1>10. RowsOfChoices' /\ OneVersionEach'
  BY <1>1, <1>2, <1>5 DEF AdoptionInv, RowsOfChoices, OneVersionEach, Strict, SimpleDirection
<1>11. PressAtWork' /\ OthersAreSettled' /\ UnsettledIsOnRecord'
  BY <1>1, <1>2, <1>3, <1>5, <1>6 DEF AdoptionInv, PressAtWork, OthersAreSettled,
       UnsettledIsOnRecord, Settled, Claiming, Selecting, Untouched, Arriving
<1>12. FinalCloses' /\ SelectionIsOwned' /\ VersionIsNamed'
  BY <1>1, <1>5 DEF AdoptionInv, FinalCloses, SelectionIsOwned, VersionIsNamed, Settled,
       SimpleDirection
<1>13. SuccessIsBacked'
  BY <1>1, <1>2, <1>5 DEF AdoptionInv, SuccessIsBacked, RowsOfChoices
<1> QED BY <1>7, <1>8, <1>9, <1>10, <1>11, <1>12, <1>13 DEF AdoptionInv

----------------------------------------------------------------------------
(* Presses, the user and crashes. *)

LEMMA UserSaveKeeps ==
  ASSUME AdoptionInv, NEW m \in Saves, UserSave(m)
  PROVE  AdoptionInv'
<1> USE AdoptionConstants
<1>1. /\ UNCHANGED <<execs, workflow, status, selected, expected, offers, patch, pressed, target,
                     before, prior, at, undone, crashes>>
      /\ at # "save" /\ versions' = versions \cup {m} /\ activeVersion' = m
      /\ m \notin Presses /\ m \in Versions /\ m # NoVersion
  BY DEF UserSave, portfolioVars, pressVars, Presses
<1>2. /\ \A r \in Presses : r \in versions' <=> r \in versions
      /\ \A p \in Proposals : VersionsOf(p)' = VersionsOf(p)
      /\ VersionsOf(selected)' = VersionsOf(selected)
  BY <1>1 DEF VersionsOf
<1>3. PressesInOrder' /\ SavedIsVersion' /\ TablesTyped'
  BY <1>1, <1>2 DEF AdoptionInv, PressesInOrder, SavedIsVersion, TablesTyped, ExecsTypeOK
<1>4. RowsOfChoices' /\ OneVersionEach' /\ SuccessIsBacked'
  BY <1>1, <1>2 DEF AdoptionInv, RowsOfChoices, OneVersionEach, SuccessIsBacked, Strict,
       SimpleDirection
<1>5. PressAtWork'
  <2>1. at # "idle" => pressed \in Presses
    BY DEF AdoptionInv, PressesInOrder
  <2> QED BY <1>1, <1>2, <2>1 DEF AdoptionInv, PressAtWork, RecordedResult, Choice, Settled,
       Untouched, Arriving, Claiming, Selecting
<1>6. OthersAreSettled' /\ UnsettledIsOnRecord' /\ FinalCloses' /\ SelectionIsOwned' /\ VersionIsNamed'
  BY <1>1, <1>2 DEF AdoptionInv, OthersAreSettled, UnsettledIsOnRecord, FinalCloses,
       SelectionIsOwned, VersionIsNamed, Settled, SimpleDirection
<1> QED BY <1>3, <1>4, <1>5, <1>6 DEF AdoptionInv

LEMMA PressKeeps ==
  ASSUME AdoptionInv, NEW p \in Proposals, Press(p)
  PROVE  AdoptionInv'
<1> USE AdoptionConstants
<1>1. /\ UNCHANGED <<execs, workflow, status, selected, expected, offers, patch, versions,
                     activeVersion, before, prior, undone, crashes>>
      /\ at = "idle" /\ at' = "load" /\ pressed' = pressed + 1
      /\ target' = [target EXCEPT ![pressed + 1] = p]
  BY DEF Press, Proceed, portfolioVars, writerVars
<1>2. pressed + 1 \in 1..MaxRequests /\ pressed \in Nat
  <2>1. Made \subseteq Refreshes
    BY DEF Made
  <2>2. Cardinality(Made) \in Nat
    BY <2>1, RefreshConstants, FS_Subset, FS_CardinalityType
  <2> QED BY <2>2, PressesAreNumbered DEF Press, Requested, AdoptionInv, TablesTyped
<1>3. pressed' \in Presses /\ pressed' \notin versions /\ patch[pressed'] = "none" /\ target[pressed'] = NoProposal
  BY <1>1, <1>2, PressesAreNumbered DEF AdoptionInv, PressesInOrder, SavedIsVersion, Presses
<1>4. \A r \in Presses : target'[r] = IF r = pressed' THEN p ELSE target[r]
  BY <1>1, <1>3 DEF AdoptionInv, TablesTyped
<1>5. /\ \A q \in Proposals : VersionsOf(q)' = VersionsOf(q)
      /\ status = "committing" => VersionsOf(selected)' = VersionsOf(selected)
  BY <1>1, <1>3, <1>4 DEF VersionsOf
<1>6. TablesTyped'
  BY <1>1, <1>2, <1>3 DEF AdoptionInv, TablesTyped, ExecsTypeOK, Arriving
<1>7. PressesInOrder'
  <2>1. \A r \in Presses : r <= pressed' => target'[r] \in Proposals
    BY <1>1, <1>2, <1>4, PressesAreNumbered DEF AdoptionInv, PressesInOrder, Presses
  <2>2. \A r \in Presses : r > pressed' => target'[r] = NoProposal /\ patch'[r] = "none"
    BY <1>1, <1>2, <1>4, PressesAreNumbered DEF AdoptionInv, PressesInOrder, Presses
  <2>3. \A r \in undone' : r <= pressed'
    BY <1>1, <1>2, PressesAreNumbered DEF AdoptionInv, PressesInOrder, TablesTyped, Presses
  <2> QED BY <1>3, <2>1, <2>2, <2>3 DEF PressesInOrder
<1>8. SavedIsVersion' /\ OneVersionEach' /\ SuccessIsBacked'
  BY <1>1, <1>5 DEF AdoptionInv, SavedIsVersion, OneVersionEach, SuccessIsBacked, Strict,
       SimpleDirection
<1>9. RowsOfChoices'
  <2>1. \A q \in Proposals : execs[q].result # NoVersion =>
          execs[q].result \in Presses /\ target[execs[q].result] = q
    BY DEF AdoptionInv, RowsOfChoices
  <2>2. \A q \in Proposals : execs[q].result # pressed'
    BY <1>3, <2>1 DEF Proposals, Presses
  <2> QED BY <1>1, <1>4, <1>5, <2>1, <2>2 DEF AdoptionInv, RowsOfChoices, Strict
<1>10. PressAtWork'
  BY <1>1, <1>3 DEF PressAtWork, Untouched, Arriving, Claiming, Selecting
<1>11. OthersAreSettled' /\ FinalCloses' /\ SelectionIsOwned' /\ VersionIsNamed'
  <2>1. \A r \in undone : target'[r] = target[r]
    BY <1>1, <1>2, <1>4 DEF AdoptionInv, PressesInOrder, TablesTyped, Presses
  <2> QED BY <1>1, <1>5, <2>1 DEF AdoptionInv, OthersAreSettled, FinalCloses, SelectionIsOwned,
             VersionIsNamed, Settled, SimpleDirection, Selecting
<1>12. UnsettledIsOnRecord'
  BY <1>1, <1>3, <1>4, <1>5 DEF AdoptionInv, UnsettledIsOnRecord, Settled
<1> QED BY <1>6, <1>7, <1>8, <1>9, <1>10, <1>11, <1>12 DEF AdoptionInv

LEMMA CrashKeeps ==
  ASSUME AdoptionInv, Crash
  PROVE  AdoptionInv'
<1>1. /\ UNCHANGED <<execs, workflow, status, selected, expected, offers, patch, versions, activeVersion,
                     undone, pressed, target, before, prior>>
      /\ at' = "idle" /\ crashes' = crashes + 1 /\ crashes \in Nat
  BY DEF Crash, portfolioVars, writerVars, pressVars, AdoptionInv, TablesTyped
<1>2. RowsOfChoices' /\ PressesInOrder' /\ SavedIsVersion' /\ OneVersionEach' /\ SuccessIsBacked'
  BY <1>1, RowsKept DEF Settled
<1>3. UnsettledIsOnRecord' /\ FinalCloses' /\ VersionIsNamed'
  BY <1>1, PortfolioKept
<1>4. TablesTyped' /\ PressAtWork' /\ OthersAreSettled' /\ SelectionIsOwned'
  BY <1>1 DEF AdoptionInv, TablesTyped, ExecsTypeOK, PressAtWork, OthersAreSettled,
       SelectionIsOwned, Untouched, Arriving, Claiming, Selecting
<1> QED BY <1>2, <1>3, <1>4 DEF AdoptionInv

LEMMA AdoptionInit ==
  ASSUME Init
  PROVE  AdoptionInv
<1> USE AdoptionConstants, PressesAreNumbered
<1>1. /\ ExecsTypeOK
      /\ \A p \in Proposals : /\ execs[p].kind \in Kinds /\ ~execs[p].unstarted /\ execs[p].turn = Nobody
                               /\ execs[p].result = NoVersion /\ execs[p].status = "none"
  BY DEF Init, ExecsInit, NoExec, ExecsTypeOK, Exec, ExecStatus, Proposals
<1>2. TablesTyped
  BY <1>1 DEF Init, TablesTyped, Proposals, Presses
<1>3. PressesInOrder /\ SavedIsVersion
  <2>1. pressed = 0 /\ 1..pressed = {}
    BY DEF Init
  <2>2. \A r \in Presses : r \in Nat /\ r > 0
    BY DEF Presses
  <2>3. SavedIsVersion
    BY DEF Init, SavedIsVersion
  <2>4. \A r \in Presses : ~(r <= pressed) /\ target[r] = NoProposal /\ patch[r] = "none"
    BY <2>1, <2>2 DEF Init
  <2>5. at = "idle" /\ undone = {}
    BY DEF Init
  <2> QED BY <2>3, <2>4, <2>5 DEF PressesInOrder
<1>4. RowsOfChoices /\ OneVersionEach /\ SuccessIsBacked
  BY <1>1 DEF Init, RowsOfChoices, OneVersionEach, SuccessIsBacked, VersionsOf
<1>5. PressAtWork /\ OthersAreSettled /\ UnsettledIsOnRecord /\ FinalCloses /\ SelectionIsOwned /\ VersionIsNamed
  BY DEF Init, PressAtWork, OthersAreSettled, UnsettledIsOnRecord, FinalCloses, SelectionIsOwned,
     VersionIsNamed, VersionsOf, Settled, Untouched, Arriving, Claiming, Selecting
<1> QED BY <1>2, <1>3, <1>4, <1>5 DEF AdoptionInv

LEMMA AdoptionStep ==
  ASSUME AdoptionInv, [Next]_vars
  PROVE  AdoptionInv'
<1>1. CASE UNCHANGED <<execs, portfolioVars, writerVars, pressVars, at, crashes>>
  BY <1>1 DEF AdoptionInv, portfolioVars, writerVars, pressVars, TablesTyped, PressesInOrder,
       SavedIsVersion, RowsOfChoices, PressAtWork, OthersAreSettled, UnsettledIsOnRecord,
       FinalCloses, SelectionIsOwned, OneVersionEach, SuccessIsBacked, VersionIsNamed,
       ExecsTypeOK, RecordedResult, VersionsOf, Settled, Strict, SimpleDirection, Choice
<1>2. CASE Step
  <2>1. MarkCommitted \/ ReconcileCommitted => AdoptionInv'
    BY PersistSelectionKeeps, BookkeepingFaultKeeps DEF MarkCommitted, ReconcileCommitted
  <2>2. CancelSeen => AdoptionInv'
    BY EndRowKeeps, UndoKeeps DEF CancelSeen
  <2> QED BY <1>2, <2>1, <2>2, QuietStep, SelectProposalKeeps, ReleaseKeeps,
       PersistSelectionKeeps, EndRowKeeps, UndoKeeps, ClaimChoiceKeeps, PersistOperationsKeeps,
       PersistVersionKeeps, UndoPersistKeeps DEF Step
<1>3. CASE \/ ExpirePortfolio \/ SelectionLeaseExpires \/ Crash
           \/ \E p \in Proposals : Press(p)
           \/ \E m \in Saves : UserSave(m)
  BY <1>3, ExpirePortfolioKeeps, QuietStep, CrashKeeps, PressKeeps, UserSaveKeeps
<1>4. CASE \/ \E f \in Refreshes : Refresh(f)
           \/ \E p \in Proposals : FactsExpire(p)
           \/ Over \/ UNCHANGED vars
  <2>1. UNCHANGED <<execs, portfolioVars, writerVars, pressVars, at, told, crashes>>
    BY <1>4 DEF Refresh, FactsExpire, Over, vars
  <2> QED BY <1>1, <2>1
<1> QED BY <1>2, <1>3, <1>4 DEF Next

(* The adoption's invariant holds throughout: rows, portfolio, patches and *)
(* versions agree as described at every stage of a press, through failures,*)
(* crashes, retries and saves of the user.                                 *)
THEOREM AdoptionSafe == Spec => []AdoptionInv
<1>1. Init => AdoptionInv
  BY AdoptionInit
<1>2. AdoptionInv /\ [Next]_vars => AdoptionInv'
  BY AdoptionStep
<1> QED BY <1>1, <1>2, PTL DEF Spec

----------------------------------------------------------------------------
(* What the invariant means. *)

(* A choice never leaves two versions behind, however often it is pressed  *)
(* and wherever a press dies, if its claim is recovered strictly or its    *)
(* adoption closes the portfolio (_execute_selected_plan_proposal).        *)
THEOREM ChoicesAreAdoptedOnce == Spec => []OneVersionPerChoice
<1>1. AdoptionInv => OneVersionPerChoice
  <2> SUFFICES ASSUME AdoptionInv, NEW p \in Proposals, Strict(p) \/ ~SimpleDirection
               PROVE  Cardinality(VersionsOf(p)) <= 1
    BY DEF OneVersionPerChoice
  <2>1. CASE VersionsOf(p) = {}
    BY <2>1, FS_EmptySet
  <2>2. CASE VersionsOf(p) # {}
    <3>1. PICK r \in VersionsOf(p) : TRUE
      BY <2>2
    <3>2. VersionsOf(p) = {r}
      BY <3>1 DEF AdoptionInv, OneVersionEach
    <3>3. Cardinality(VersionsOf(p)) = 1
      BY <3>2, FS_Singleton, Zenon
    <3> QED BY <3>3
  <2> QED BY <2>1, <2>2
<1> QED BY <1>1, AdoptionSafe, PTL

(* A choice recorded as succeeded names a version of its own that exists,  *)
(* in a portfolio settled for it: what a replay shows was really adopted.  *)
THEOREM SuccessIsReal == Spec => []SuccessIsBacked
<1>1. AdoptionInv => SuccessIsBacked
  BY DEF AdoptionInv
<1> QED BY <1>1, AdoptionSafe, PTL

(* Every version written for a proposal is settled, or the portfolio is    *)
(* still committing that proposal, so that the next press finds it.        *)
THEOREM VersionsAreFound == Spec => []VersionIsNamed
<1>1. AdoptionInv => VersionIsNamed
  BY DEF AdoptionInv
<1> QED BY <1>1, AdoptionSafe, PTL

(* Without a crash, no press ends with the portfolio committing unless a   *)
(* version exists for the selection, or did until a later press of the     *)
(* choice failed and took it back.                                         *)
THEOREM SelectionsAreGivenBack == Spec => []SelectionHasOwner
<1>1. AdoptionInv => SelectionHasOwner
  BY DEF AdoptionInv, SelectionIsOwned, SelectionHasOwner
<1> QED BY <1>1, AdoptionSafe, PTL

(* An adopted version replaces exactly the version its proposal was made   *)
(* for: no save of the user between the checks and the writer's commit is  *)
(* adopted over (expected_base_version_id, apply_patch's base check).      *)
THEOREM AdoptionTakesTheOfferedBase == Spec => AdoptsTheOfferedBase
<1>1. AdoptionInv /\ [Next]_vars =>
        [(versions' \ versions) \cap Presses # {} => activeVersion = expected]_vars
  <2> SUFFICES ASSUME AdoptionInv, [Next]_vars, (versions' \ versions) \cap Presses # {}
               PROVE  activeVersion = expected
    OBVIOUS
  <2>1. PersistVersion
    <3>1. CASE Step
      BY <3>1 DEF Step, writerVars, RefuseExpired, RecoverPortfolio, RecoverExecution,
           ReleaseStaleSelection, ReleaseStaleExecution, NothingToRecover, ClaimChoice,
           ReplayChoice, RefuseChoice, CheckFacts, VerifyProposal, RejectProposal, CancelSeen,
           FailOutside, UndoWrites, SelectProposal, PersistOperations, VerifierAccepts,
           PersistFails, UndoPersist, ReleaseAfterUndo, MarkCommitted, ReconcileCommitted,
           FinishChoice, AbandonChoice
    <3>2. ASSUME NEW m \in Saves, UserSave(m) PROVE FALSE
      BY <3>2, AdoptionConstants DEF UserSave, Presses
    <3>3. CASE versions' = versions
      BY <3>3
    <3> QED BY <3>1, <3>2, <3>3 DEF Next, ExpirePortfolio, SelectionLeaseExpires, Press, Refresh,
               FactsExpire, Crash, Over, vars, writerVars
  <2> QED BY <2>1 DEF PersistVersion, AdoptionInv, PressAtWork
<1> QED BY <1>1, AdoptionSafe, PTL DEF Spec, AdoptsTheOfferedBase

(* A portfolio once committed stays with its proposal: no later press,     *)
(* release, recovery or expiry moves it.                                   *)
THEOREM CommittedStaysCommitted == Spec => CommittedIsFinal
<1>1. AdoptionInv /\ [Next]_vars =>
        [status = "committed" => status' = "committed" /\ selected' = selected]_vars
  <2> SUFFICES ASSUME AdoptionInv, [Next]_vars, status = "committed"
               PROVE  status' = "committed" /\ selected' = selected
    OBVIOUS
  <2>1. at \notin Selecting
    BY DEF AdoptionInv, PressAtWork
  <2>2. CASE Step
    BY <2>1, <2>2 DEF Step, Selecting, LeftCommitting, ClaimSelection, ReleaseSelection,
         portfolioVars, RefuseExpired, RecoverPortfolio, RecoverExecution,
         ReleaseStaleSelection, ReleaseStaleExecution, NothingToRecover, ClaimChoice,
         ReplayChoice, RefuseChoice, CheckFacts, VerifyProposal, RejectProposal, CancelSeen,
         FailOutside, SelectProposal, PersistOperations, PersistVersion, VerifierAccepts,
         PersistFails, UndoPersist, ReleaseAfterUndo, MarkCommitted, ReconcileCommitted,
         FinishChoice, AbandonChoice
  <2>3. CASE UNCHANGED <<status, selected>>
    BY <2>3
  <2> QED BY <2>2, <2>3 DEF Next, ExpirePortfolio, SelectionLeaseExpires, Press, UserSave, Refresh,
             FactsExpire, Crash, Over, vars, portfolioVars
<1> QED BY <1>1, AdoptionSafe, PTL DEF Spec, CommittedIsFinal

=============================================================================
