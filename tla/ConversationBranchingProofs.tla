--------------------- MODULE ConversationBranchingProofs ---------------------
(***************************************************************************)
(* That edits and retries keep the conversation and the plan together, for *)
(* any calls, saves, bound on the conversation and number of restarts.     *)
(***************************************************************************)
EXTENDS ConversationBranching, FiniteSetTheorems, SequenceTheorems, WellFoundedInduction, TLAPS

----------------------------------------------------------------------------
(* The inductive invariant. *)

(* Stages of a call: before it has a user turn, with the turn as the last  *)
(* one, and with the answer after it.                                      *)
Entering == {"admit", "edit", "resume"}
Working == {"work", "write", "wrote", "accepted"}

Live(j) == turns[j].status \in {"active", "failed"}

(* The lease has one holder, and is held exactly while it is at work. *)
OneRun ==
  /\ \A c, d \in Calls : pc[c] \in Holding /\ pc[d] \in Holding => c = d
  /\ \A c \in Calls : pc[c] \in Holding => Session \in active
  /\ Session \in active => \E c \in Calls : pc[c] \in Holding

(* A run finds room for the turns it appends. *)
RoomLeft ==
  \A c \in Calls :
    /\ pc[c] \in Entering \cup {"retry"} => Len(turns) + 2 <= MaxTurns
    /\ pc[c] = "generate" => Len(turns) + 1 <= MaxTurns

(* Messages and answers alternate as AnswersFollow says. *)
TurnsInLine ==
  \A j \in DOMAIN turns :
    IF turns[j].role = "user" THEN turns[j].answers = 0
    ELSE j > 1 /\ turns[j].answers = j - 1 /\ turns[j - 1].role = "user"

(* The turns a run writes are the last ones, and live. *)
RunsOwnTurns ==
  \A c \in Calls :
    /\ pc[c] \in {"idle", "done"} \cup Entering => mine[c] = 0
    /\ pc[c] = "retry" =>
         mine[c] \in DOMAIN turns /\ turns[mine[c]].role = "assistant"
    /\ pc[c] = "generate" =>
         /\ mine[c] = Len(turns) /\ mine[c] > 0
         /\ turns[mine[c]].role = "user" /\ Live(mine[c])
         /\ turns[mine[c]].version = NoVersion /\ turns[mine[c]].parent < mine[c]
    /\ pc[c] \in Working =>
         /\ mine[c] + 1 = Len(turns) /\ mine[c] > 0
         /\ turns[mine[c]].role = "user" /\ Live(mine[c])
         /\ turns[mine[c] + 1].role = "assistant" /\ Live(mine[c] + 1)

(* The version of a run at work is there, and until a choice is undone no  *)
(* row names a version that is gone.                                       *)
NamedVersionsExist ==
  /\ \A c \in Calls : pc[c] = "wrote" => mine[c] \in versions
  /\ "undo" \notin seen =>
       /\ activeVersion \in versions \cup {NoVersion}
       /\ \A c \in Calls : base[c] \in versions \cup {NoVersion}
       /\ \A j \in DOMAIN turns : turns[j].version \in versions \cup {NoVersion}

(* Where the accepted version is kept while a run is at work. *)
Quiet == "disturbed" \notin seen

AcceptedIsKept ==
  Quiet =>
    /\ (\A c \in Calls : pc[c] # "wrote") => activeVersion = anchor
    /\ \A c \in Calls : pc[c] \in {"work", "write"} => base[c] = activeVersion
    /\ \A c \in Calls : pc[c] = "wrote" => base[c] = anchor /\ activeVersion = mine[c]

(* A retry waits on the base it was checked against, or on a user's save. *)
OnBaseOf(j) == FailedBase(j) = activeVersion \/ activeVersion \in Saves

RetriesKeepTheirBase ==
  \A c \in Calls :
    /\ pc[c] = "retry" => OnBaseOf(mine[c])
    /\ /\ pc[c] = "generate"
       /\ turns[mine[c]].parent > 0 /\ turns[turns[mine[c]].parent].role = "assistant"
       => OnBaseOf(turns[mine[c]].parent)

(* As long as nothing has disturbed the conversation, the last version its *)
(* turns name is the active one, or the one the run at work will return to *)
(* if its own is rejected.                                                 *)
LastIsActive ==
  seen = {} =>
    /\ (\A c \in Calls : pc[c] # "wrote") => RestorePoint(Len(turns)) = activeVersion
    /\ \A c \in Calls : pc[c] \in {"work", "write", "wrote"} =>
         /\ RestorePoint(Len(turns)) = base[c]
         /\ turns[mine[c]].version = NoVersion /\ turns[mine[c] + 1].version = NoVersion
    /\ \A c \in Calls : pc[c] \in {"work", "write"} => base[c] = activeVersion
    /\ \A c \in Calls : pc[c] = "wrote" => activeVersion = mine[c]

(* And a message that names a version was left with it; one that names     *)
(* none was met by what an edit of it restores.                            *)
AtWorkOn(i) == \E c \in Calls : pc[c] \in Holding /\ mine[c] = i

MessagesKeepTheirSnapshot ==
  seen = {} =>
    \A i \in DOMAIN turns : turns[i].role = "user" =>
      IF turns[i].version = NoVersion THEN RestorePoint(i) = found[i]
      ELSE turns[i].version = (IF AtWorkOn(i) THEN activeVersion ELSE left[i])

BranchInv ==
  /\ TypeOK /\ OneRun /\ RoomLeft /\ TurnsInLine /\ RunsOwnTurns /\ NamedVersionsExist
  /\ AcceptedIsKept /\ RetriesKeepTheirBase /\ LastIsActive /\ MessagesKeepTheirSnapshot

----------------------------------------------------------------------------
(* What an edit restores. *)

(* A nonempty set of numbers up to n has a largest one. *)
LEMMA Largest ==
  ASSUME NEW n \in Nat, NEW S, S \subseteq 0..n, S # {}
  PROVE  \E m \in S : \A k \in S : k <= m
<1> DEFINE R == OpToRel(<, Nat)
           T == {n - k : k \in S}
<1>1. IsWellFoundedOn(R, Nat) BY NatLessThanWellFounded
<1>2. T \subseteq Nat /\ T # {}
  <2> HIDE DEF R
  <2>1. \A k \in S : n - k \in Nat OBVIOUS
  <2> QED BY <2>1
<1>3. \E x \in T : \A y \in T : ~(<<y, x>> \in R)
  <2> HIDE DEF R, T
  <2> QED BY <1>1, <1>2, WFMin
<1>4. \E x \in T : \A y \in T : ~(y < x) BY <1>2, <1>3 DEF OpToRel
<1>5. PICK s \in S : \A y \in T : ~(y < n - s) BY <1>4
<1>6. \A k \in S : n - k \in T /\ k \in Nat /\ k <= n OBVIOUS
<1>7. \A k \in S : k <= s
  <2> HIDE DEF R, T
  <2> QED BY <1>5, <1>6
<1> QED BY <1>7

(* RestorePoint as a function of the rows. *)
RestoreIn(rows, i) ==
  LET named == {j \in 1..i : /\ rows[j].version # NoVersion
                             /\ rows[j].status \in {"active", "superseded", "failed"}} IN
  IF named = {} THEN NoVersion
  ELSE rows[CHOOSE j \in named : \A k \in named : k <= j].version

LEMMA RestorePointIsIn ==
  \A i : RestorePoint(i) = RestoreIn(turns, i) /\ RestorePoint(i)' = RestoreIn(turns', i)
BY DEF RestorePoint, NamedUpTo, RestoreIn

(* It restores the version of a row up to i, if it restores one. *)
LEMMA RestoresARow ==
  ASSUME NEW rows \in Seq(Slot), NEW i \in 0..Len(rows)
  PROVE  RestoreIn(rows, i) = NoVersion \/ \E j \in 1..i : RestoreIn(rows, i) = rows[j].version
<1> DEFINE named == {j \in 1..i : /\ rows[j].version # NoVersion
                                  /\ rows[j].status \in {"active", "superseded", "failed"}}
<1>1. CASE named = {} BY <1>1 DEF RestoreIn
<1>2. CASE named # {}
  <2>0. i \in Nat /\ named \subseteq 0..i BY LenProperties
  <2>1. \E m \in named : \A k \in named : k <= m
    <3> HIDE DEF named
    <3> QED BY <1>2, <2>0, Largest
  <2>2. (CHOOSE j \in named : \A k \in named : k <= j) \in named
    <3> HIDE DEF named
    <3> QED BY <2>1
  <2>3. RestoreIn(rows, i) = rows[CHOOSE j \in named : \A k \in named : k <= j].version
    BY <1>2 DEF RestoreIn
  <2> QED BY <2>2, <2>3
<1> QED BY <1>1, <1>2

(* A row that names a version restores it, the next one that names none    *)
(* restores the same, and only the versions up to i matter.                *)
LEMMA RestoresItsOwn ==
  ASSUME NEW rows \in Seq(Slot), NEW i \in 1..Len(rows), rows[i].version # NoVersion
  PROVE  RestoreIn(rows, i) = rows[i].version
<1> DEFINE named == {j \in 1..i : /\ rows[j].version # NoVersion
                                  /\ rows[j].status \in {"active", "superseded", "failed"}}
<1>0. i \in Nat /\ i >= 1 /\ rows[i] \in Slot BY LenProperties, ElementOfSeq
<1>1. i \in named BY <1>0 DEF Slot
<1>2. \A k \in named : k \in Nat /\ k <= i BY <1>0
<1>3. (CHOOSE j \in named : \A k \in named : k <= j) = i
  <2> HIDE DEF named
  <2>1. \A j \in named : (\A k \in named : k <= j) => j = i
    BY <1>0, <1>1, <1>2
  <2>2. \A k \in named : k <= i
    BY <1>2
  <2> QED BY <1>1, <2>1, <2>2, Zenon
<1> QED BY <1>1, <1>3 DEF RestoreIn

LEMMA RestoresTheOneBefore ==
  ASSUME NEW rows \in Seq(Slot), NEW i \in 1..Len(rows), rows[i].version = NoVersion
  PROVE  RestoreIn(rows, i) = RestoreIn(rows, i - 1)
<1> DEFINE named == {j \in 1..i : /\ rows[j].version # NoVersion
                                  /\ rows[j].status \in {"active", "superseded", "failed"}}
           before == {j \in 1..(i - 1) : /\ rows[j].version # NoVersion
                                        /\ rows[j].status \in {"active", "superseded", "failed"}}
<1>0. i \in Nat /\ i >= 1 BY LenProperties
<1>1. named = before BY <1>0
<1>2. RestoreIn(rows, i)
        = IF named = {} THEN NoVersion ELSE rows[CHOOSE j \in named : \A k \in named : k <= j].version
  BY DEF RestoreIn
<1>3. RestoreIn(rows, i - 1)
        = IF before = {} THEN NoVersion
          ELSE rows[CHOOSE j \in before : \A k \in before : k <= j].version
  BY DEF RestoreIn
<1> HIDE DEF named, before
<1> QED BY <1>1, <1>2, <1>3

LEMMA RestoresByVersion ==
  ASSUME NEW rows \in Seq(Slot), NEW rows2 \in Seq(Slot),
         NEW i \in Nat, i <= Len(rows), i <= Len(rows2),
         \A j \in 1..i : rows[j].version = rows2[j].version
  PROVE  RestoreIn(rows, i) = RestoreIn(rows2, i)
<1> DEFINE named == {j \in 1..i : /\ rows[j].version # NoVersion
                                  /\ rows[j].status \in {"active", "superseded", "failed"}}
           named2 == {j \in 1..i : /\ rows2[j].version # NoVersion
                                   /\ rows2[j].status \in {"active", "superseded", "failed"}}
<1>1. \A j \in 1..i : rows[j] \in Slot /\ rows2[j] \in Slot BY LenProperties, ElementOfSeq
<1>2. named = named2 BY <1>1 DEF Slot
<1>3. CASE named = {} BY <1>2, <1>3 DEF RestoreIn
<1>4. CASE named # {}
  <2>0. i \in Nat /\ named \subseteq 0..i OBVIOUS
  <2>1. \E m \in named : \A k \in named : k <= m
    <3> HIDE DEF named
    <3> QED BY <1>4, <2>0, Largest
  <2>2. (CHOOSE j \in named : \A k \in named : k <= j) \in named
    <3> HIDE DEF named
    <3> QED BY <2>1
  <2>3. RestoreIn(rows, i) = rows[CHOOSE j \in named : \A k \in named : k <= j].version
    BY <1>4 DEF RestoreIn
  <2>4. RestoreIn(rows2, i) = rows2[CHOOSE j \in named2 : \A k \in named2 : k <= j].version
    BY <1>4, <1>2 DEF RestoreIn
  <2>5. (CHOOSE j \in named : \A k \in named : k <= j)
          = (CHOOSE j \in named2 : \A k \in named2 : k <= j)
    <3> HIDE DEF named, named2
    <3> QED BY <1>2
  <2> QED BY <2>2, <2>3, <2>4, <2>5
<1> QED BY <1>3, <1>4

----------------------------------------------------------------------------
(* What the steps do to the rows. *)

(* The run at c rewrites its own two rows; V has what its answer may name. *)
Rewrites(c, V) ==
  /\ turns' \in Seq(Slot) /\ Len(turns') = Len(turns)
  /\ \A j \in 1..Len(turns) : /\ turns'[j].role = turns[j].role
                              /\ turns'[j].answers = turns[j].answers
                              /\ turns'[j].parent = turns[j].parent
  /\ \A j \in 1..Len(turns) : j # mine[c] /\ j # mine[c] + 1 => turns'[j] = turns[j]
  /\ turns'[mine[c]].status \in {"active", "failed"}
  /\ turns'[mine[c] + 1].status \in {"active", "failed"}
  /\ turns'[mine[c] + 1].version \in V
  /\ turns'[mine[c]].version \in {turns[mine[c]].version, turns'[mine[c] + 1].version}

(* A user turn is appended, the rows before it kept but for their status.  *)
Inserts(parent) ==
  /\ turns' \in Seq(Slot) /\ Len(turns') = Len(turns) + 1
  /\ \A j \in 1..Len(turns) : /\ turns'[j].role = turns[j].role
                              /\ turns'[j].answers = turns[j].answers
                              /\ turns'[j].parent = turns[j].parent
                              /\ turns'[j].version = turns[j].version
                              /\ turns'[j].failedOn = turns[j].failedOn
                              /\ turns[j].status = "superseded" => turns'[j] = turns[j]
  /\ turns'[Len(turns) + 1] = UserTurn(parent)

LEMMA RowsAreTyped ==
  ASSUME TypeOK
  PROVE  /\ Len(turns) \in Nat /\ DOMAIN turns = 1..Len(turns)
         /\ \A j \in 1..Len(turns) : turns[j] \in Slot
         /\ NoVersion \in Version /\ 1..MaxTurns \subseteq Version /\ MaxTurns \in Nat
         /\ \A t \in 1..MaxTurns : t # NoVersion /\ t \notin Saves
         /\ Len(turns) <= MaxTurns /\ \A i \in DOMAIN turns : i \in 0..MaxTurns
         /\ mine \in [Calls -> 0..MaxTurns] /\ \A c \in Calls : mine[c] \in 0..MaxTurns
<1>1. /\ turns \in Seq(Slot) /\ Len(turns) <= MaxTurns
      /\ mine \in [Calls -> 0..MaxTurns]
  BY DEF TypeOK
<1>2. /\ Len(turns) \in Nat /\ DOMAIN turns = 1..Len(turns)
      /\ \A j \in 1..Len(turns) : turns[j] \in Slot
  BY <1>1, LenProperties, ElementOfSeq
<1>3. /\ NoVersion \in Version /\ 1..MaxTurns \subseteq Version /\ MaxTurns \in Nat
      /\ \A t \in 1..MaxTurns : t # NoVersion /\ t \notin Saves
  BY ConversationConstants DEF Version, Versions
<1> QED BY <1>1, <1>2, <1>3

LEMMA RowEdits ==
  ASSUME NEW r \in Slot, NEW v \in Version, NEW st \in {"active", "failed", "superseded"}
  PROVE  /\ [r EXCEPT !.version = v] \in Slot /\ [r EXCEPT !.status = st] \in Slot
         /\ [r EXCEPT !.waiting = TRUE] \in Slot
         /\ [r EXCEPT !.status = st, !.version = v] \in Slot
BY DEF Slot

LEMMA NewRows ==
  ASSUME NEW parent \in 0..MaxTurns, NEW v \in Version, TypeOK
  PROVE  UserTurn(parent) \in Slot /\ AssistantTurn(parent, v) \in Slot
BY RowsAreTyped DEF UserTurn, AssistantTurn, Slot

LEMMA AnswerIsNext ==
  ASSUME TypeOK, TurnsInLine, RunsOwnTurns, NEW c \in Calls, pc[c] \in Working
  PROVE  /\ Answer(c) = mine[c] + 1 /\ mine[c] \in Nat /\ mine[c] > 0
         /\ mine[c] \in 1..Len(turns) /\ mine[c] + 1 \in 1..Len(turns)
<1>1. /\ mine[c] \in Nat /\ mine[c] > 0 /\ mine[c] + 1 = Len(turns)
      /\ turns[mine[c] + 1].role = "assistant"
  <2>1. mine[c] \in Nat
    <3>1. mine \in [Calls -> 0..MaxTurns]
      BY DEF TypeOK
    <3> QED BY <3>1, RowsAreTyped
  <2> QED BY <2>1 DEF RunsOwnTurns
<1>2. mine[c] \in 1..Len(turns) /\ mine[c] + 1 \in 1..Len(turns)
  BY <1>1, RowsAreTyped
<1>3. mine[c] + 1 \in DOMAIN turns /\ turns[mine[c] + 1].answers = mine[c]
  BY <1>1, <1>2, RowsAreTyped DEF TurnsInLine
<1>4. \A j \in DOMAIN turns : turns[j].answers = mine[c] => j = mine[c] + 1
  BY <1>1, RowsAreTyped DEF TurnsInLine
<1>5. Answer(c) = mine[c] + 1
  BY <1>3, <1>4 DEF Answer
<1> QED BY <1>1, <1>2, <1>5

LEMMA NameRewrites ==
  ASSUME TypeOK, TurnsInLine, RunsOwnTurns, NEW c \in Calls, pc[c] \in Working,
         NEW v \in Version, NEW slots \in {{}, {Answer(c)}, {mine[c], Answer(c)}},
         turns' = Name(c, slots, v)
  PROVE  Rewrites(c, IF slots = {} THEN {turns[mine[c] + 1].version} ELSE {v})
<1>1. /\ Answer(c) = mine[c] + 1 /\ mine[c] \in Nat
      /\ mine[c] \in 1..Len(turns) /\ mine[c] + 1 \in 1..Len(turns)
  BY AnswerIsNext
<1>2. slots = {} \/ slots = {mine[c] + 1} \/ slots = {mine[c], mine[c] + 1}
  BY <1>1
<1>3. /\ DOMAIN turns' = 1..Len(turns)
      /\ \A j \in 1..Len(turns) :
           turns'[j] = IF j \in slots THEN [turns[j] EXCEPT !.version = v] ELSE turns[j]
      /\ turns' = [j \in 1..Len(turns) |->
                     IF j \in slots THEN [turns[j] EXCEPT !.version = v] ELSE turns[j]]
  BY RowsAreTyped DEF Name
<1>4. \A j \in 1..Len(turns) : turns'[j] \in Slot
  <2>1. \A j \in 1..Len(turns) : turns[j] \in Slot /\ [turns[j] EXCEPT !.version = v] \in Slot
    BY RowsAreTyped, RowEdits
  <2> QED BY <1>3, <2>1
<1>5. turns' \in Seq(Slot) /\ Len(turns') = Len(turns)
  BY <1>3, <1>4, RowsAreTyped, SeqDef, LenProperties
<1>6. \A j \in 1..Len(turns) : /\ turns'[j].role = turns[j].role
                              /\ turns'[j].answers = turns[j].answers
                              /\ turns'[j].parent = turns[j].parent
                              /\ turns'[j].status = turns[j].status
                              /\ turns'[j].version = IF j \in slots THEN v ELSE turns[j].version
  BY <1>3, RowsAreTyped DEF Slot
<1>7. turns[mine[c]].status \in {"active", "failed"} /\ turns[mine[c] + 1].status \in {"active", "failed"}
  BY DEF RunsOwnTurns, Live
<1> QED BY <1>1, <1>2, <1>3, <1>5, <1>6, <1>7 DEF Rewrites

LEMMA FailedAnswerRewrites ==
  ASSUME TypeOK, TurnsInLine, RunsOwnTurns, NEW c \in Calls, pc[c] \in Working,
         NEW v \in Version, turns' = FailedAnswer(c, v)
  PROVE  Rewrites(c, {v})
<1>1. /\ Answer(c) = mine[c] + 1 /\ mine[c] \in Nat
      /\ mine[c] \in 1..Len(turns) /\ mine[c] + 1 \in 1..Len(turns)
  BY AnswerIsNext
<1>2. /\ DOMAIN turns' = 1..Len(turns)
      /\ \A j \in 1..Len(turns) : j # mine[c] + 1 => turns'[j] = turns[j]
      /\ turns'[mine[c] + 1] = [turns[mine[c] + 1] EXCEPT !.status = "failed", !.version = v]
      /\ turns' = [j \in 1..Len(turns) |-> turns'[j]]
  BY <1>1, RowsAreTyped DEF FailedAnswer
<1>3. \A j \in 1..Len(turns) : turns'[j] \in Slot
  <2>1. turns[mine[c] + 1] \in Slot /\ "failed" \in {"active", "failed", "superseded"}
    BY <1>1, RowsAreTyped
  <2>2. [turns[mine[c] + 1] EXCEPT !.status = "failed", !.version = v] \in Slot
    BY <2>1, RowEdits
  <2> QED BY <1>2, <2>2, RowsAreTyped
<1>4. turns' \in Seq(Slot) /\ Len(turns') = Len(turns)
  BY <1>2, <1>3, RowsAreTyped, SeqDef, LenProperties
<1>5. \A j \in 1..Len(turns) : /\ turns'[j].role = turns[j].role
                              /\ turns'[j].answers = turns[j].answers
                              /\ turns'[j].parent = turns[j].parent
  <2>1. \A j \in 1..Len(turns) : j = mine[c] + 1 =>
          turns'[j] = [turns[j] EXCEPT !.status = "failed", !.version = v]
    BY <1>2
  <2>2. \A slot \in Slot : LET new == [slot EXCEPT !.status = "failed", !.version = v] IN
          new.role = slot.role /\ new.answers = slot.answers /\ new.parent = slot.parent
    BY DEF Slot
  <2> QED BY <1>2, <2>1, <2>2, RowsAreTyped
<1>6. turns'[mine[c] + 1].status = "failed" /\ turns'[mine[c] + 1].version = v
  BY <1>1, <1>2, RowsAreTyped DEF Slot
<1>7. turns[mine[c]].status \in {"active", "failed"}
  BY DEF RunsOwnTurns, Live
<1> QED BY <1>1, <1>2, <1>4, <1>5, <1>6, <1>7 DEF Rewrites

LEMMA WaitRewrites ==
  ASSUME TypeOK, TurnsInLine, RunsOwnTurns, NEW c \in Calls, pc[c] \in Working,
         turns' = [turns EXCEPT ![Answer(c)].waiting = TRUE]
  PROVE  Rewrites(c, {turns[mine[c] + 1].version})
<1>1. /\ Answer(c) = mine[c] + 1 /\ mine[c] \in Nat
      /\ mine[c] \in 1..Len(turns) /\ mine[c] + 1 \in 1..Len(turns)
  BY AnswerIsNext
<1>2. /\ DOMAIN turns' = 1..Len(turns)
      /\ \A j \in 1..Len(turns) : j # mine[c] + 1 => turns'[j] = turns[j]
      /\ turns'[mine[c] + 1] = [turns[mine[c] + 1] EXCEPT !.waiting = TRUE]
      /\ turns' = [j \in 1..Len(turns) |-> turns'[j]]
  BY <1>1, RowsAreTyped
<1>3. turns[mine[c] + 1] \in Slot /\ turns'[mine[c] + 1] \in Slot
  <2>1. turns[mine[c] + 1] \in Slot
    BY <1>1, RowsAreTyped
  <2>2. [turns[mine[c] + 1] EXCEPT !.waiting = TRUE] \in Slot
    BY <2>1 DEF Slot
  <2> QED BY <1>2, <2>1, <2>2
<1>4. turns' \in Seq(Slot) /\ Len(turns') = Len(turns)
  <2>1. \A j \in 1..Len(turns) : turns'[j] \in Slot
    BY <1>2, <1>3, RowsAreTyped
  <2>2. turns' = [j \in 1..Len(turns) |-> turns'[j]] /\ Len(turns) \in Nat
    BY <1>2, RowsAreTyped
  <2>3. turns' \in [1..Len(turns) -> Slot]
    BY <2>1, <2>2
  <2>4. turns' \in Seq(Slot)
    BY <2>2, <2>3, SeqDef
  <2>5. DOMAIN turns' = 1..Len(turns') /\ Len(turns') \in Nat
    BY <2>4, LenProperties
  <2> QED BY <1>2, <2>2, <2>4, <2>5
<1>5. /\ turns'[mine[c] + 1].role = turns[mine[c] + 1].role
      /\ turns'[mine[c] + 1].answers = turns[mine[c] + 1].answers
      /\ turns'[mine[c] + 1].parent = turns[mine[c] + 1].parent
      /\ turns'[mine[c] + 1].status = turns[mine[c] + 1].status
      /\ turns'[mine[c] + 1].version = turns[mine[c] + 1].version
  BY <1>2, <1>3 DEF Slot
<1>6. turns[mine[c]].status \in {"active", "failed"} /\ turns[mine[c] + 1].status \in {"active", "failed"}
  BY DEF RunsOwnTurns, Live
<1> QED BY <1>1, <1>2, <1>4, <1>5, <1>6 DEF Rewrites

(* The rewriting steps, by what their answer may name. *)
LEMMA RewritingSteps ==
  ASSUME TypeOK, TurnsInLine, RunsOwnTurns, NEW c \in Calls
  PROVE  /\ Reply(c) => Rewrites(c, {turns[mine[c] + 1].version, base[c]})
         /\ WaitForProvider(c) => Rewrites(c, {turns[mine[c] + 1].version})
         /\ FailGeneration(c) => Rewrites(c, {NoVersion, activeVersion})
         /\ RejectStaleBase(c) => Rewrites(c, {NoVersion})
         /\ AcceptVersion(c) => Rewrites(c, {mine[c]})
         /\ RejectVersion(c) => Rewrites(c, {NoVersion, base[c]})
<1>0. base[c] \in Version /\ activeVersion \in Version /\ NoVersion \in Version
  BY RowsAreTyped DEF TypeOK
<1>1. ASSUME Reply(c) PROVE Rewrites(c, {turns[mine[c] + 1].version, base[c]})
  <2>1. PICK slots \in {{}, {Answer(c)}, {mine[c], Answer(c)}} : turns' = Name(c, slots, base[c])
    BY <1>1 DEF Reply
  <2>2. pc[c] \in Working
    BY <1>1 DEF Reply, Working
  <2>3. Rewrites(c, IF slots = {} THEN {turns[mine[c] + 1].version} ELSE {base[c]})
    BY <1>0, <2>1, <2>2, NameRewrites
  <2> QED BY <2>3 DEF Rewrites
<1>2. ASSUME WaitForProvider(c) PROVE Rewrites(c, {turns[mine[c] + 1].version})
  BY <1>2, WaitRewrites DEF WaitForProvider, Working
<1>3. ASSUME FailGeneration(c) PROVE Rewrites(c, {NoVersion, activeVersion})
  <2>1. PICK v \in {NoVersion, activeVersion} : turns' = FailedAnswer(c, v)
    BY <1>3 DEF FailGeneration
  <2>2. pc[c] \in Working
    BY <1>3 DEF FailGeneration, Working
  <2>3. Rewrites(c, {v})
    BY <1>0, <2>1, <2>2, FailedAnswerRewrites
  <2> QED BY <2>3 DEF Rewrites
<1>4. ASSUME RejectStaleBase(c) PROVE Rewrites(c, {NoVersion})
  BY <1>0, <1>4, FailedAnswerRewrites DEF RejectStaleBase, Working
<1>5. ASSUME AcceptVersion(c) PROVE Rewrites(c, {mine[c]})
  <2>1. PICK slots \in {{Answer(c)}, {mine[c], Answer(c)}} : turns' = Name(c, slots, mine[c])
    BY <1>5 DEF AcceptVersion
  <2>2. pc[c] \in Working
    BY <1>5 DEF AcceptVersion, Working
  <2>3. mine[c] \in Version /\ slots # {}
    <3>1. mine[c] \in 1..Len(turns) /\ Len(turns) <= MaxTurns
      BY <2>2, AnswerIsNext, RowsAreTyped
    <3>2. mine[c] \in 1..MaxTurns
      BY <3>1, RowsAreTyped
    <3> QED BY <3>2, RowsAreTyped
  <2>4. Rewrites(c, IF slots = {} THEN {turns[mine[c] + 1].version} ELSE {mine[c]})
    BY <2>1, <2>2, <2>3, NameRewrites
  <2> QED BY <2>3, <2>4
<1>6. ASSUME RejectVersion(c) PROVE Rewrites(c, {NoVersion, base[c]})
  <2>1. PICK v \in {NoVersion, base[c]} : turns' = FailedAnswer(c, v)
    BY <1>6 DEF RejectVersion
  <2>2. pc[c] \in Working
    BY <1>6 DEF RejectVersion, Working
  <2>3. Rewrites(c, {v})
    BY <1>0, <2>1, <2>2, FailedAnswerRewrites
  <2> QED BY <2>3 DEF Rewrites
<1> QED BY <1>1, <1>2, <1>3, <1>4, <1>5, <1>6

(* The steps that append a user turn: an edit's supersedes rows first. *)
LEMMA InsertsOver ==
  ASSUME TypeOK, NEW c \in Calls, NEW rows \in Seq(Slot), Len(rows) = Len(turns),
         NEW parent \in 0..MaxTurns, NEW v \in Version, Len(turns) + 1 <= MaxTurns,
         InsertUserTurn(c, rows, parent, v),
         \A j \in 1..Len(turns) : /\ rows[j].role = turns[j].role
                                  /\ rows[j].answers = turns[j].answers
                                  /\ rows[j].parent = turns[j].parent
                                  /\ rows[j].version = turns[j].version
                                  /\ rows[j].failedOn = turns[j].failedOn
                                  /\ turns[j].status = "superseded" => rows[j] = turns[j]
  PROVE  /\ Inserts(parent)
         /\ mine' \in [Calls -> 0..MaxTurns] /\ mine'[c] = Len(turns) + 1
         /\ \A d \in Calls \ {c} : mine'[d] = mine[d]
         /\ found' \in [Turns -> Version] /\ (OnlyEdited => found'[Len(turns) + 1] = v)
         /\ \A i \in 1..Len(turns) : found'[i] = found[i]
<1>1. Len(turns) \in Nat /\ UserTurn(parent) \in Slot /\ Turns = 1..MaxTurns /\ MaxTurns \in Nat
  BY RowsAreTyped, NewRows, ConversationConstants
<1>2. /\ turns' \in Seq(Slot) /\ Len(turns') = Len(turns) + 1
      /\ \A j \in 1..Len(turns) : turns'[j] = rows[j]
      /\ turns'[Len(turns) + 1] = UserTurn(parent)
  BY <1>1, AppendProperties DEF InsertUserTurn
<1>3. Inserts(parent)
  BY <1>2 DEF Inserts
<1>4. /\ mine' \in [Calls -> 0..MaxTurns] /\ mine'[c] = Len(turns) + 1
      /\ \A d \in Calls \ {c} : mine'[d] = mine[d]
  <2>1. mine \in [Calls -> 0..MaxTurns] /\ mine' = [mine EXCEPT ![c] = Len(turns) + 1]
    BY DEF TypeOK, InsertUserTurn
  <2> QED BY <1>1, <2>1
<1>5. /\ found' \in [Turns -> Version] /\ (OnlyEdited => found'[Len(turns) + 1] = v)
      /\ \A i \in 1..Len(turns) : found'[i] = found[i]
  <2>1. /\ found \in [Turns -> Version]
        /\ found' = IF OnlyEdited THEN [found EXCEPT ![Len(turns) + 1] = v] ELSE found
    BY DEF TypeOK, InsertUserTurn
  <2> QED BY <1>1, <2>1
<1> QED BY <1>3, <1>4, <1>5

LEMMA InsertsNext ==
  ASSUME TypeOK, NEW c \in Calls, Len(turns) + 1 <= MaxTurns,
         NEW parent \in 0..MaxTurns, NEW v \in Version, InsertUserTurn(c, turns, parent, v)
  PROVE  /\ Inserts(parent) /\ \A j \in 1..Len(turns) : turns'[j] = turns[j]
         /\ mine' \in [Calls -> 0..MaxTurns] /\ mine'[c] = Len(turns) + 1
         /\ \A d \in Calls \ {c} : mine'[d] = mine[d]
         /\ found' \in [Turns -> Version] /\ (OnlyEdited => found'[Len(turns) + 1] = v)
         /\ \A i \in 1..Len(turns) : found'[i] = found[i]
<1>1. turns \in Seq(Slot)
  BY DEF TypeOK
<1>2. \A j \in 1..Len(turns) : turns'[j] = turns[j]
  BY <1>1, NewRows, AppendProperties DEF InsertUserTurn
<1> QED BY <1>1, <1>2, InsertsOver

LEMMA SupersededRows ==
  ASSUME TypeOK, NEW i \in DOMAIN turns
  PROVE  /\ Superseded(i) \in Seq(Slot) /\ Len(Superseded(i)) = Len(turns)
         /\ \A j \in 1..Len(turns) :
              /\ Superseded(i)[j].role = turns[j].role
              /\ Superseded(i)[j].answers = turns[j].answers
              /\ Superseded(i)[j].parent = turns[j].parent
              /\ Superseded(i)[j].version = turns[j].version
              /\ Superseded(i)[j].failedOn = turns[j].failedOn
              /\ turns[j].status = "superseded" => Superseded(i)[j] = turns[j]
<1> DEFINE rows == Superseded(i)
<1>1. rows = [j \in 1..Len(turns) |->
                IF j >= i THEN [turns[j] EXCEPT !.status = "superseded"] ELSE turns[j]]
  BY RowsAreTyped DEF Superseded
<1>2. \A r \in Slot : LET new == [r EXCEPT !.status = "superseded"] IN
        /\ new \in Slot /\ new.role = r.role /\ new.answers = r.answers /\ new.parent = r.parent
        /\ new.version = r.version /\ new.failedOn = r.failedOn
        /\ r.status = "superseded" => new = r
  BY DEF Slot
<1>3. \A j \in 1..Len(turns) :
        /\ turns[j] \in Slot
        /\ rows[j] = [turns[j] EXCEPT !.status = "superseded"] \/ rows[j] = turns[j]
  BY <1>1, RowsAreTyped
<1>4. \A j \in 1..Len(turns) : rows[j] \in Slot
  BY <1>2, <1>3
<1>5. rows \in Seq(Slot) /\ Len(rows) = Len(turns)
  <2>1. rows = [j \in 1..Len(turns) |-> rows[j]]
    BY <1>1
  <2> HIDE DEF rows
  <2> QED BY <1>4, <2>1, RowsAreTyped, SeqDef, LenProperties
<1> HIDE DEF rows
<1>6. \A j \in 1..Len(turns) :
        /\ rows[j].role = turns[j].role /\ rows[j].answers = turns[j].answers
        /\ rows[j].parent = turns[j].parent /\ rows[j].version = turns[j].version
        /\ rows[j].failedOn = turns[j].failedOn
        /\ turns[j].status = "superseded" => rows[j] = turns[j]
  BY <1>2, <1>3
<1> QED BY <1>5, <1>6 DEF rows

----------------------------------------------------------------------------
(* The invariant, kept by the steps that leave the rows alone. *)

LEMMA FrameOfStep ==
  ASSUME TypeOK, NEW c \in Calls, Step(c)
  PROVE  /\ \A d \in Calls \ {c} : pc'[d] = pc[d] /\ mine'[d] = mine[d] /\ base'[d] = base[d]
         /\ pc' \in [Calls -> {"idle", "done", "crashed"} \cup Holding]
         /\ \/ pc[c] \in Holding /\ pc'[c] \in Holding /\ active' = active
            \/ Enter(c) \/ RefuseBusy(c) \/ Release(c)
<1> USE DEF Goto, Holding
<1>0. /\ pc \in [Calls -> {"idle", "done", "crashed"} \cup Holding]
      /\ mine \in [Calls -> 0..MaxTurns] /\ base \in [Calls -> Version]
  BY DEF TypeOK
<1>1. CASE Enter(c) \/ RefuseBusy(c) \/ GiveUp(c)
  BY <1>0, <1>1 DEF Enter, RefuseBusy, GiveUp, Arrives, controlVars
<1>2. CASE AdmitMessage(c) \/ EditMessage(c) \/ InsertRetry(c) \/ ResumePlanningAttempt(c)
  BY <1>0, <1>2 DEF AdmitMessage, EditMessage, InsertRetry, ResumePlanningAttempt, InsertUserTurn,
       BindSessionRunTurn, controlVars
<1>3. CASE CheckResume(c) \/ Generate(c) \/ Release(c)
  BY <1>0, <1>3 DEF CheckResume, Generate, Release, controlVars
<1>4. CASE \/ PressChoice(c) \/ Reply(c) \/ WaitForProvider(c) \/ FailGeneration(c)
           \/ RejectStaleBase(c) \/ AcceptVersion(c) \/ RejectVersion(c)
  BY <1>0, <1>4 DEF PressChoice, threadVars, Reply, WaitForProvider, FailGeneration,
       RejectStaleBase, AcceptVersion, RejectVersion, controlVars
<1>5. CASE RaiseError(c) \/ FenceWrite(c) \/ CommitVersion(c) \/ UndoChoice(c)
           \/ FinishAccepted(c) \/ AnswerCall(c)
  BY <1>0, <1>5 DEF RaiseError, FenceWrite, CommitVersion, UndoChoice, FinishAccepted, AnswerCall,
       BeginSessionRunWrite, controlVars
<1> QED BY <1>1, <1>2, <1>3, <1>4, <1>5 DEF Step

LEMMA RowTyped ==
  ASSUME BranchInv, [Next]_vars
  PROVE  row' \in Row
<1>0. row \in Row /\ Unclaimed \in Row /\ [Unclaimed EXCEPT !.closed = TRUE] \in Row
  BY RowsAreTyped DEF BranchInv, TypeOK, Row, Unclaimed
<1>1. ASSUME NEW c \in Calls, PressChoice(c) PROVE row' \in Row
  <2>1. PICK b \in {base[c], NoVersion} \cup {row.base} :
          row' = [row EXCEPT !.base = b, !.presses = @ \cup {mine[c]}]
    BY <1>1 DEF PressChoice
  <2>2. base[c] \in Version /\ NoVersion \in Version /\ row.base \in Version
    BY <1>0, RowsAreTyped DEF BranchInv, TypeOK, Row
  <2>3. mine[c] \in Turns
    <3>1. pc[c] \in Working /\ TypeOK /\ TurnsInLine /\ RunsOwnTurns
      BY <1>1 DEF PressChoice, Working, BranchInv
    <3>2. mine[c] \in 1..Len(turns) /\ Len(turns) <= MaxTurns
      BY <3>1, AnswerIsNext DEF TypeOK
    <3> QED BY <3>1, <3>2, RowsAreTyped, ConversationConstants
  <2> QED BY <1>0, <2>1, <2>2, <2>3 DEF Row
<1>2. ASSUME NEW c \in Calls, Release(c) PROVE row' \in Row
  BY <1>0, <1>2 DEF Release
<1>3. CASE row' = row
  BY <1>0, <1>3
<1> QED BY <1>1, <1>2, <1>3 DEF Next, Step, Enter, RefuseBusy, GiveUp, AdmitMessage, EditMessage,
     CheckResume, InsertRetry, ResumePlanningAttempt, Generate, Reply, WaitForProvider,
     FailGeneration, RaiseError, FenceWrite, CommitVersion, RejectStaleBase, AcceptVersion,
     RejectVersion, UndoChoice, FinishAccepted, AnswerCall, CancelRun, UserSave, Restart, Over, vars

LEMMA OneRunStep ==
  ASSUME TypeOK, OneRun, NEW c \in Calls, Step(c)
  PROVE  /\ OneRun'
         /\ pc[c] \in Holding => \A d \in Calls \ {c} : pc[d] \notin Holding /\ pc'[d] \notin Holding
<1>1. /\ \A d \in Calls \ {c} : pc'[d] = pc[d]
      /\ \/ pc[c] \in Holding /\ pc'[c] \in Holding /\ active' = active
         \/ Enter(c) \/ RefuseBusy(c) \/ Release(c)
  BY FrameOfStep
<1>2. pc \in [Calls -> {"idle", "done", "crashed"} \cup Holding]
  BY DEF TypeOK
<1>3. CASE pc[c] \in Holding /\ pc'[c] \in Holding /\ active' = active
  BY <1>1, <1>3 DEF OneRun
<1>4. CASE Enter(c)
  BY <1>1, <1>2, <1>4 DEF OneRun, Enter, Arrives, Goto, AcquireSessionRun, Holding
<1>5. CASE RefuseBusy(c)
  BY <1>1, <1>2, <1>5 DEF OneRun, RefuseBusy, Arrives, Goto, controlVars, Holding
<1>6. CASE Release(c)
  BY <1>1, <1>2, <1>6 DEF OneRun, Release, Goto, ReleaseSessionRun, Holding
<1> QED BY <1>1, <1>3, <1>4, <1>5, <1>6 DEF OneRun

LEMMA RegistryTyped ==
  ASSUME TypeOK
  PROVE  /\ AcquireSessionRun(Session) => ControlTypeOK'
         /\ \A t \in Turns : BindSessionRunTurn(Session, t) => ControlTypeOK'
         /\ BeginSessionRunWrite(Session) => ControlTypeOK'
         /\ ReleaseSessionRun(Session) => ControlTypeOK'
         /\ RequestSessionRunCancel(Session) => ControlTypeOK'
         /\ LoseRegistry => ControlTypeOK'
         /\ UNCHANGED controlVars => ControlTypeOK'
BY ConversationConstants DEF TypeOK, ControlTypeOK, AcquireSessionRun, BindSessionRunTurn,
     BeginSessionRunWrite, ReleaseSessionRun, RequestSessionRunCancel, LoseRegistry, controlVars

(* Steps that move a call without touching a row or a version. *)
LEMMA QuietMoveKeeps ==
  ASSUME BranchInv, NEW c \in Calls,
         Enter(c) \/ RefuseBusy(c) \/ GiveUp(c) \/ RaiseError(c) \/ FenceWrite(c)
           \/ FinishAccepted(c) \/ AnswerCall(c)
  PROVE  BranchInv'
<1>0. TypeOK /\ OneRun /\ RunsOwnTurns /\ Step(c)
  BY DEF BranchInv, Step
<1>1. /\ UNCHANGED <<turns, versions, activeVersion, mine, base, anchor, found, left>>
      /\ IF pc[c] = "wrote" THEN seen' = seen \cup {"disturbed"} ELSE seen' = seen
      /\ \/ pc[c] = "idle" /\ pc'[c] = "done"
         \/ pc[c] = "idle" /\ pc'[c] \in Entering /\ Len(turns) + 2 <= MaxTurns
         \/ pc[c] \in Holding /\ pc'[c] = "release"
         \/ pc[c] = "work" /\ pc'[c] = "write"
         \/ pc[c] = "accepted" /\ pc'[c] = "answer"
  BY <1>0 DEF TypeOK, Enter, RefuseBusy, GiveUp, RaiseError, FenceWrite, FinishAccepted, AnswerCall,
       Arrives, Goto, Entering, Holding, dataVars, historyVars
<1>2. /\ OneRun' /\ \A d \in Calls \ {c} : pc'[d] = pc[d]
      /\ pc' \in [Calls -> {"idle", "done", "crashed"} \cup Holding]
  BY <1>0, OneRunStep, FrameOfStep
<1>3. TypeOK'
  <2>1. ControlTypeOK'
    BY <1>0, RegistryTyped DEF Enter, RefuseBusy, GiveUp, RaiseError, FenceWrite, FinishAccepted,
         AnswerCall
  <2>9. row' \in Row
    BY <1>0, RowTyped DEF Next
  <2> QED BY <1>0, <1>1, <1>2, <2>1, <2>9 DEF TypeOK
<1>4. RoomLeft' /\ TurnsInLine' /\ RunsOwnTurns'
  BY <1>1, <1>2 DEF BranchInv, RoomLeft, TurnsInLine, RunsOwnTurns, Entering, Working, Holding, Live
<1>5. NamedVersionsExist' /\ AcceptedIsKept' /\ RetriesKeepTheirBase'
  BY <1>1, <1>2 DEF BranchInv, NamedVersionsExist, AcceptedIsKept, RetriesKeepTheirBase, Quiet,
       OnBaseOf, FailedBase, Entering
<1>6. LastIsActive'
  BY <1>1, <1>2, RestorePointIsIn DEF BranchInv, LastIsActive, Entering
<1>7. MessagesKeepTheirSnapshot'
  <2>1. \A i \in DOMAIN turns : AtWorkOn(i)' <=> AtWorkOn(i)
    BY <1>0, <1>1, <1>2, RowsAreTyped DEF BranchInv, RunsOwnTurns, AtWorkOn, Holding, Entering
  <2> QED BY <1>1, <2>1, RestorePointIsIn DEF BranchInv, MessagesKeepTheirSnapshot
<1> QED BY <1>2, <1>3, <1>4, <1>5, <1>6, <1>7 DEF BranchInv

(* resume_failed_turn's checks. *)
LEMMA CheckResumeKeeps ==
  ASSUME BranchInv, NEW c \in Calls, CheckResume(c)
  PROVE  BranchInv'
<1>0. TypeOK /\ OneRun /\ RunsOwnTurns /\ Step(c)
  BY DEF BranchInv, Step
<1>1. PICK j \in DOMAIN turns : Resumable(j) /\ mine' = [mine EXCEPT ![c] = j]
  BY DEF CheckResume
<1>2. /\ UNCHANGED <<turns, versions, activeVersion, base, anchor, found, left, seen>>
      /\ UNCHANGED controlVars /\ pc[c] = "resume" /\ pc'[c] = "retry"
      /\ j \in 1..Len(turns) /\ turns[j].role = "assistant" /\ FailedBase(j) = activeVersion
  BY <1>0, <1>1, RowsAreTyped DEF TypeOK, CheckResume, Goto, dataVars, historyVars, Resumable
<1>3. /\ OneRun' /\ \A d \in Calls \ {c} : pc'[d] = pc[d] /\ mine'[d] = mine[d]
      /\ pc' \in [Calls -> {"idle", "done", "crashed"} \cup Holding]
      /\ mine'[c] = j /\ mine' \in [Calls -> 0..MaxTurns]
  <2>1. mine \in [Calls -> 0..MaxTurns] /\ j \in 0..MaxTurns
    <3>1. mine \in [Calls -> 0..MaxTurns] /\ Len(turns) <= MaxTurns
      BY <1>0 DEF TypeOK
    <3> QED BY <1>0, <1>2, <3>1, RowsAreTyped
  <2> QED BY <1>0, <1>1, <2>1, OneRunStep, FrameOfStep
<1>4. TypeOK'
  <2>1. ControlTypeOK'
    BY <1>0, <1>2 DEF ControlTypeOK, TypeOK, controlVars
  <2>9. row' \in Row
    BY <1>0, RowTyped DEF Next
  <2> QED BY <1>0, <1>2, <1>3, <2>1, <2>9 DEF TypeOK
<1>5. RoomLeft' /\ TurnsInLine' /\ RunsOwnTurns'
  <2>1. RoomLeft' /\ TurnsInLine'
    BY <1>2, <1>3 DEF BranchInv, RoomLeft, TurnsInLine, Entering
  <2>2. ASSUME NEW d \in Calls
        PROVE  /\ pc'[d] \in {"idle", "done"} \cup Entering => mine'[d] = 0
               /\ pc'[d] = "retry" => mine'[d] \in DOMAIN turns /\ turns[mine'[d]].role = "assistant"
    BY <1>2, <1>3, <1>0, RowsAreTyped DEF BranchInv, RunsOwnTurns, Entering
  <2>3. ASSUME NEW d \in Calls, pc'[d] \in {"generate"} \cup Working
        PROVE  pc'[d] = pc[d] /\ mine'[d] = mine[d]
    BY <1>2, <1>3, <2>3 DEF Working
  <2>4. turns' = turns
    BY <1>2
  <2>5. ASSUME NEW d \in Calls, pc'[d] = "generate"
        PROVE  /\ mine'[d] = Len(turns) /\ mine'[d] > 0
               /\ turns[mine'[d]].role = "user" /\ turns[mine'[d]].status \in {"active", "failed"}
               /\ turns[mine'[d]].version = NoVersion /\ turns[mine'[d]].parent < mine'[d]
    BY <2>3, <2>5 DEF BranchInv, RunsOwnTurns, Live
  <2>6. ASSUME NEW d \in Calls, pc'[d] \in Working
        PROVE  /\ mine'[d] + 1 = Len(turns) /\ mine'[d] > 0
               /\ turns[mine'[d]].role = "user" /\ turns[mine'[d]].status \in {"active", "failed"}
               /\ turns[mine'[d] + 1].role = "assistant"
               /\ turns[mine'[d] + 1].status \in {"active", "failed"}
    BY <2>3, <2>6 DEF BranchInv, RunsOwnTurns, Live
  <2> QED BY <2>1, <2>2, <2>4, <2>5, <2>6 DEF RunsOwnTurns, Live
<1>6. NamedVersionsExist' /\ AcceptedIsKept' /\ RetriesKeepTheirBase'
  <2>1. NamedVersionsExist'
    BY <1>2, <1>3 DEF BranchInv, NamedVersionsExist
  <2>2. AcceptedIsKept'
    BY <1>2, <1>3 DEF BranchInv, AcceptedIsKept, Quiet
  <2>3. RetriesKeepTheirBase'
    BY <1>2, <1>3 DEF BranchInv, RetriesKeepTheirBase, OnBaseOf, FailedBase
  <2> QED BY <2>1, <2>2, <2>3
<1>7. LastIsActive'
  BY <1>2, <1>3, RestorePointIsIn DEF BranchInv, LastIsActive
<1>8. MessagesKeepTheirSnapshot'
  <2>1. mine[c] = 0
    BY <1>2 DEF BranchInv, RunsOwnTurns, Entering
  <2>2. \A i \in DOMAIN turns : turns[i].role = "user" => (AtWorkOn(i)' <=> AtWorkOn(i))
    <3>1. \A i \in DOMAIN turns : i # 0 /\ (turns[i].role = "user" => i # j)
      BY <1>0, <1>2, RowsAreTyped
    <3> QED BY <1>2, <1>3, <2>1, <3>1 DEF AtWorkOn, Holding
  <2> QED BY <1>2, <2>2, RestorePointIsIn DEF BranchInv, MessagesKeepTheirSnapshot
<1> QED BY <1>3, <1>4, <1>5, <1>6, <1>7, <1>8 DEF BranchInv

(* The version's commit: the run is left with a version not yet accepted. *)
LEMMA CommitVersionKeeps ==
  ASSUME BranchInv, NEW c \in Calls, CommitVersion(c)
  PROVE  BranchInv'
<1>0. TypeOK /\ OneRun /\ RunsOwnTurns /\ Step(c)
  BY DEF BranchInv, Step
<1>1. /\ UNCHANGED <<turns, mine, base, anchor, found, left, seen>> /\ UNCHANGED controlVars
      /\ pc[c] = "write" /\ pc'[c] = "wrote"
      /\ versions' = versions \cup {mine[c]} /\ activeVersion' = mine[c]
  BY <1>0 DEF TypeOK, CommitVersion, Goto, historyVars
<1>2. /\ OneRun' /\ \A d \in Calls \ {c} : pc'[d] = pc[d] /\ pc[d] \notin Holding
      /\ pc' \in [Calls -> {"idle", "done", "crashed"} \cup Holding]
  BY <1>0, <1>1, OneRunStep, FrameOfStep DEF Holding
<1>3. mine[c] \in 1..Len(turns) /\ mine[c] \in Turns
  <2>1. mine[c] \in 1..Len(turns) /\ Len(turns) <= MaxTurns
    BY <1>0, <1>1, AnswerIsNext DEF BranchInv, TypeOK, Working
  <2> QED BY <2>1, <1>0, RowsAreTyped, ConversationConstants
<1>4. TypeOK'
  <2>1. ControlTypeOK'
    BY <1>0, <1>1 DEF ControlTypeOK, TypeOK, controlVars
  <2>9. row' \in Row
    BY <1>0, RowTyped DEF Next
  <2> QED BY <1>0, <1>1, <1>2, <1>3, <2>1, <2>9 DEF TypeOK, Version, Versions
<1>5. RoomLeft' /\ TurnsInLine' /\ RunsOwnTurns'
  BY <1>1, <1>2 DEF BranchInv, RoomLeft, TurnsInLine, RunsOwnTurns, Entering, Working, Live
<1>6. NamedVersionsExist'
  BY <1>1, <1>2 DEF BranchInv, NamedVersionsExist
<1>7. AcceptedIsKept' /\ RetriesKeepTheirBase'
  BY <1>1, <1>2 DEF BranchInv, AcceptedIsKept, RetriesKeepTheirBase, Quiet, Holding
<1>8. LastIsActive'
  BY <1>1, <1>2, RestorePointIsIn DEF BranchInv, LastIsActive, Holding
<1>9. MessagesKeepTheirSnapshot'
  <2>1. \A i \in DOMAIN turns : AtWorkOn(i)' <=> AtWorkOn(i)
    BY <1>1, <1>2 DEF AtWorkOn, Holding
  <2>2. \A i \in DOMAIN turns : AtWorkOn(i) => i = mine[c]
    BY <1>2 DEF AtWorkOn
  <2>3. seen = {} => turns[mine[c]].version = NoVersion
    BY <1>1 DEF BranchInv, LastIsActive
  <2> QED BY <1>1, <2>1, <2>2, <2>3, RestorePointIsIn DEF BranchInv, MessagesKeepTheirSnapshot
<1> QED BY <1>2, <1>4, <1>5, <1>6, <1>7, <1>8, <1>9 DEF BranchInv

(* Pressing the choice binds its row to the message.                       *)
LEMMA PressChoiceKeeps ==
  ASSUME BranchInv, NEW c \in Calls, PressChoice(c)
  PROVE  BranchInv'
<1>0. TypeOK /\ OneRun /\ RunsOwnTurns /\ Step(c)
  BY DEF BranchInv, Step
<1>1. /\ UNCHANGED <<turns, versions, activeVersion, pc, mine, base, anchor, found, left, seen>>
      /\ UNCHANGED controlVars /\ active' = active
  BY DEF PressChoice, dataVars, threadVars, historyVars, controlVars
<1>2. TypeOK'
  <2>1. ControlTypeOK' /\ row' \in Row
    BY <1>0, <1>1, RegistryTyped, RowTyped DEF Next
  <2> QED BY <1>0, <1>1, <2>1 DEF TypeOK
<1>3. OneRun' /\ RoomLeft' /\ TurnsInLine' /\ RunsOwnTurns'
  BY <1>1 DEF BranchInv, OneRun, RoomLeft, TurnsInLine, RunsOwnTurns, Live
<1>4. NamedVersionsExist' /\ RetriesKeepTheirBase' /\ AcceptedIsKept'
  BY <1>1 DEF BranchInv, NamedVersionsExist, RetriesKeepTheirBase, OnBaseOf, FailedBase,
       AcceptedIsKept, Quiet
<1>5. LastIsActive' /\ MessagesKeepTheirSnapshot'
  BY <1>1, RestorePointIsIn DEF BranchInv, LastIsActive, MessagesKeepTheirSnapshot, AtWorkOn
<1> QED BY <1>2, <1>3, <1>4, <1>5 DEF BranchInv

(* The undo of a choice says so when it takes anything back; a run that    *)
(* has written always has something to take back.                          *)
LEMMA UndoChoiceKeeps ==
  ASSUME BranchInv, NEW c \in Calls, UndoChoice(c)
  PROVE  BranchInv'
<1>0. TypeOK /\ OneRun /\ RunsOwnTurns /\ Step(c)
  BY DEF BranchInv, Step
<1>1. /\ UNCHANGED <<turns, mine, base, found, left>> /\ UNCHANGED controlVars
      /\ pc[c] \in {"work", "write", "wrote", "accepted", "answer"} /\ pc'[c] = "release"
      /\ Presses(c)
  BY <1>0 DEF TypeOK, UndoChoice, Goto
<1>2. PICK undone \in UndoneBy(c) :
        /\ versions' = versions \ undone
        /\ \/ /\ undone # {} \/ LeftAPatch(c)
              /\ activeVersion' = OfferedBase /\ anchor' = OfferedBase
              /\ seen' = seen \cup {"undo"}
           \/ undone = {} /\ UNCHANGED <<activeVersion, anchor, seen>>
  BY DEF UndoChoice
<1>3. /\ OneRun' /\ \A d \in Calls \ {c} : pc'[d] = pc[d] /\ pc[d] \notin Holding
      /\ pc' \in [Calls -> {"idle", "done", "crashed"} \cup Holding]
  BY <1>0, <1>1, OneRunStep, FrameOfStep DEF Holding
<1>4. \A d \in Calls : pc'[d] \notin Holding \/ (d = c /\ pc'[d] = "release")
  BY <1>1, <1>3
<1>5. TypeOK'
  <2>1. ControlTypeOK' /\ row' \in Row
    BY <1>0, <1>1, RegistryTyped, RowTyped DEF Next
  <2>2. activeVersion' \in Version /\ anchor' \in Version /\ versions' \subseteq Versions
    BY <1>0, <1>2, RowsAreTyped DEF TypeOK, OfferedBase, Version
  <2>3. seen' \subseteq {"edit", "save", "undo", "disturbed"}
    BY <1>0, <1>2 DEF TypeOK
  <2> QED BY <1>0, <1>1, <1>3, <2>1, <2>2, <2>3 DEF TypeOK
<1>6. RoomLeft' /\ TurnsInLine' /\ RunsOwnTurns'
  BY <1>1, <1>4, <1>3 DEF BranchInv, RoomLeft, TurnsInLine, RunsOwnTurns, Entering, Working, Live,
       Holding
<1>7. CASE seen' = seen \cup {"undo"} /\ activeVersion' = anchor'
  <2>1. NamedVersionsExist' /\ LastIsActive' /\ MessagesKeepTheirSnapshot'
    BY <1>4, <1>7 DEF NamedVersionsExist, LastIsActive, MessagesKeepTheirSnapshot, Holding
  <2>2. AcceptedIsKept' /\ RetriesKeepTheirBase'
    BY <1>4, <1>7 DEF AcceptedIsKept, RetriesKeepTheirBase, Holding
  <2> QED BY <1>3, <1>5, <1>6, <2>1, <2>2 DEF BranchInv
<1>8. CASE undone = {} /\ UNCHANGED <<activeVersion, anchor, seen>>
  <2>1. pc[c] # "wrote"
    BY <1>0, <1>1, <1>2, <1>8 DEF UndoneBy, Presses, BranchInv, NamedVersionsExist
  <2>2. \A d \in Calls : pc[d] # "wrote" /\ pc'[d] \notin {"work", "write", "wrote", "retry", "generate"}
    BY <1>1, <1>3, <1>4, <2>1 DEF Holding
  <2>3. versions' = versions
    BY <1>2, <1>8
  <2>4. NamedVersionsExist' /\ AcceptedIsKept' /\ RetriesKeepTheirBase'
    BY <1>1, <1>8, <2>2, <2>3 DEF BranchInv, NamedVersionsExist, AcceptedIsKept,
         RetriesKeepTheirBase, Quiet
  <2>5. LastIsActive'
    BY <1>1, <1>8, <2>2, RestorePointIsIn DEF BranchInv, LastIsActive
  <2>6. MessagesKeepTheirSnapshot'
    <3>1. \A i \in DOMAIN turns : AtWorkOn(i)' <=> AtWorkOn(i)
      BY <1>1, <1>3 DEF AtWorkOn, Holding
    <3> QED BY <1>1, <1>8, <3>1, RestorePointIsIn DEF BranchInv, MessagesKeepTheirSnapshot
  <2> QED BY <1>3, <1>5, <1>6, <2>4, <2>5, <2>6 DEF BranchInv
<1> QED BY <1>2, <1>7, <1>8

(* finally: the version the run leaves behind is the message's snapshot. *)
LEMMA ReleaseKeeps ==
  ASSUME BranchInv, NEW c \in Calls, Release(c)
  PROVE  BranchInv'
<1>0. TypeOK /\ OneRun /\ RunsOwnTurns /\ Step(c)
  BY DEF BranchInv, Step
<1>1. /\ UNCHANGED <<turns, versions, activeVersion, anchor, found, seen>>
      /\ pc[c] = "release" /\ pc'[c] = "done"
      /\ mine' = [mine EXCEPT ![c] = 0] /\ mine'[c] = 0
      /\ base' = [base EXCEPT ![c] = NoVersion] /\ base'[c] = NoVersion
      /\ left' = IF OnlyEdited /\ mine[c] \in DOMAIN turns /\ turns[mine[c]].role = "user"
                 THEN [left EXCEPT ![mine[c]] = activeVersion] ELSE left
  BY <1>0 DEF TypeOK, Release, Goto, dataVars
<1>2. /\ OneRun' /\ \A d \in Calls \ {c} : /\ pc'[d] = pc[d] /\ pc[d] \notin Holding
                                           /\ mine'[d] = mine[d] /\ base'[d] = base[d]
      /\ pc' \in [Calls -> {"idle", "done", "crashed"} \cup Holding]
  BY <1>0, <1>1, OneRunStep, FrameOfStep DEF Holding
<1>3. \A d \in Calls : pc'[d] \notin Holding
  BY <1>1, <1>2 DEF Holding
<1>4. left' \in [Turns -> Version]
      /\ \A i \in DOMAIN turns :
           IF OnlyEdited /\ i = mine[c] /\ turns[i].role = "user" THEN left'[i] = activeVersion
           ELSE left'[i] = left[i]
  <2>1. left \in [Turns -> Version] /\ activeVersion \in Version /\ DOMAIN turns \subseteq Turns
    <3>1. left \in [Turns -> Version] /\ activeVersion \in Version /\ Len(turns) <= MaxTurns
      BY <1>0 DEF TypeOK
    <3> QED BY <1>0, <3>1, RowsAreTyped, ConversationConstants
  <2> QED BY <1>1, <2>1
<1>5. TypeOK'
  <2>1. ControlTypeOK'
    BY <1>0, RegistryTyped DEF Release
  <2>2. mine' \in [Calls -> 0..MaxTurns] /\ base' \in [Calls -> Version]
    <3>1. mine \in [Calls -> 0..MaxTurns] /\ base \in [Calls -> Version]
      BY <1>0 DEF TypeOK
    <3> QED BY <1>0, <1>1, <3>1, RowsAreTyped
  <2>9. row' \in Row
    BY <1>0, RowTyped DEF Next
  <2> QED BY <1>0, <1>1, <1>2, <1>4, <2>1, <2>2, <2>9 DEF TypeOK
<1>6. RoomLeft' /\ TurnsInLine' /\ RunsOwnTurns'
  <2>1. RoomLeft' /\ TurnsInLine'
    BY <1>1, <1>3 DEF BranchInv, RoomLeft, TurnsInLine, Entering, Holding
  <2> QED BY <1>1, <1>2, <1>3, <2>1 DEF BranchInv, RunsOwnTurns, Entering, Working, Holding
<1>7. NamedVersionsExist' /\ AcceptedIsKept' /\ RetriesKeepTheirBase'
  BY <1>1, <1>2, <1>3 DEF BranchInv, NamedVersionsExist, AcceptedIsKept, RetriesKeepTheirBase,
       Quiet, Holding
<1>8. LastIsActive'
  BY <1>1, <1>2, <1>3, RestorePointIsIn DEF BranchInv, LastIsActive, Holding
<1>9. MessagesKeepTheirSnapshot'
  <2>1. \A i \in DOMAIN turns : ~AtWorkOn(i)'
    BY <1>3 DEF AtWorkOn
  <2>2. \A i \in DOMAIN turns : AtWorkOn(i) <=> i = mine[c]
    BY <1>1, <1>2 DEF AtWorkOn, Holding
  <2>3. seen' = seen /\ (seen = {} => OnlyEdited)
    BY <1>1 DEF OnlyEdited
  <2>4. seen = {} => \A i \in DOMAIN turns : turns[i].role = "user" =>
          IF turns[i].version = NoVersion THEN RestorePoint(i) = found[i]
          ELSE turns[i].version = left'[i]
    BY <1>4, <2>2, <2>3 DEF BranchInv, MessagesKeepTheirSnapshot
  <2> QED BY <1>1, <2>1, <2>3, <2>4, RestorePointIsIn DEF MessagesKeepTheirSnapshot
<1> QED BY <1>2, <1>5, <1>6, <1>7, <1>8, <1>9 DEF BranchInv

(* The user saves, between runs or into one. *)
LEMMA UserSaveKeeps ==
  ASSUME BranchInv, NEW m \in Saves, UserSave(m)
  PROVE  BranchInv'
<1>0. TypeOK /\ OneRun /\ RunsOwnTurns
  BY DEF BranchInv
<1>1. /\ UNCHANGED <<turns, pc, mine, base, found, left>> /\ UNCHANGED controlVars /\ active' = active
      /\ versions' = versions \cup {m} /\ activeVersion' = m /\ anchor' = m
      /\ seen' = seen \cup {"save"} \cup IF Session \in active THEN {"disturbed"} ELSE {}
  BY DEF UserSave, threadVars, controlVars
<1>2. TypeOK'
  <2>1. ControlTypeOK'
    BY <1>0, <1>1, RegistryTyped
  <2>2. m \in Versions /\ m \in Version
    BY DEF Version, Versions
  <2>9. row' \in Row
    BY <1>0, RowTyped DEF Next
  <2> QED BY <1>0, <1>1, <2>1, <2>2, <2>9 DEF TypeOK
<1>3. OneRun' /\ RoomLeft' /\ TurnsInLine' /\ RunsOwnTurns'
  BY <1>1 DEF BranchInv, OneRun, RoomLeft, TurnsInLine, RunsOwnTurns, Live
<1>4. NamedVersionsExist' /\ RetriesKeepTheirBase'
  BY <1>1 DEF BranchInv, NamedVersionsExist, RetriesKeepTheirBase, OnBaseOf
<1>5. AcceptedIsKept' /\ LastIsActive' /\ MessagesKeepTheirSnapshot'
  BY <1>0, <1>1 DEF OneRun, AcceptedIsKept, LastIsActive, MessagesKeepTheirSnapshot, Quiet, Holding
<1> QED BY <1>2, <1>3, <1>4, <1>5 DEF BranchInv

(* The process restarts, and no run is under way any more. *)
LEMMA RestartKeeps ==
  ASSUME BranchInv, Restart
  PROVE  BranchInv'
<1>0. TypeOK /\ OneRun /\ RunsOwnTurns
  BY DEF BranchInv
<1>9. 0 \in 0..MaxTurns /\ NoVersion \in Version
  BY <1>0, RowsAreTyped
<1>1. /\ UNCHANGED <<turns, versions, activeVersion, anchor, found, left>>
      /\ \A c \in Calls : mine'[c] = 0 /\ base'[c] = NoVersion
      /\ mine' \in [Calls -> 0..MaxTurns] /\ base' \in [Calls -> Version]
      /\ active' = {} /\ seen' = seen \cup {"disturbed"}
      /\ pc' \in [Calls -> {"idle", "done", "crashed"} \cup Holding]
      /\ \A c \in Calls : /\ pc'[c] \notin Holding
                          /\ pc'[c] \in {"idle", "done"} => pc'[c] = pc[c]
  BY <1>0, <1>9 DEF Restart, LoseRegistry, dataVars, TypeOK, Holding
<1>2. TypeOK'
  <2>1. ControlTypeOK'
    BY <1>0, RegistryTyped DEF Restart
  <2>9. row' \in Row
    BY <1>0, RowTyped DEF Next
  <2> QED BY <1>0, <1>1, <2>1, <2>9 DEF TypeOK
<1>3. OneRun' /\ RoomLeft' /\ TurnsInLine' /\ RunsOwnTurns'
  BY <1>1 DEF BranchInv, OneRun, RoomLeft, TurnsInLine, RunsOwnTurns, Entering, Working, Holding
<1>4. NamedVersionsExist' /\ RetriesKeepTheirBase'
  BY <1>1 DEF BranchInv, NamedVersionsExist, RetriesKeepTheirBase, Holding
<1>5. AcceptedIsKept' /\ LastIsActive' /\ MessagesKeepTheirSnapshot'
  BY <1>1 DEF AcceptedIsKept, LastIsActive, MessagesKeepTheirSnapshot, Quiet
<1> QED BY <1>2, <1>3, <1>4, <1>5 DEF BranchInv

(* A cancellation is asked for, or nothing happens. *)
LEMMA RegistryOnlyKeeps ==
  ASSUME BranchInv, CancelRun \/ UNCHANGED vars
  PROVE  BranchInv'
<1>0. TypeOK /\ OneRun /\ RunsOwnTurns
  BY DEF BranchInv
<1>1. /\ UNCHANGED <<turns, versions, activeVersion, pc, mine, base, anchor, found, left, seen>>
      /\ active' = active
  BY DEF CancelRun, RequestSessionRunCancel, vars, dataVars, threadVars, historyVars, controlVars
<1>2. TypeOK'
  <2>1. ControlTypeOK'
    BY <1>0, RegistryTyped DEF CancelRun, vars
  <2>9. row' \in Row
    BY <1>0, RowTyped DEF Next
  <2> QED BY <1>0, <1>1, <2>1, <2>9 DEF TypeOK
<1>3. OneRun' /\ RoomLeft' /\ TurnsInLine' /\ RunsOwnTurns'
  BY <1>1 DEF BranchInv, OneRun, RoomLeft, TurnsInLine, RunsOwnTurns, Live
<1>4. NamedVersionsExist' /\ RetriesKeepTheirBase' /\ AcceptedIsKept'
  BY <1>1 DEF BranchInv, NamedVersionsExist, RetriesKeepTheirBase, OnBaseOf, FailedBase,
       AcceptedIsKept, Quiet
<1>5. LastIsActive' /\ MessagesKeepTheirSnapshot'
  BY <1>1, RestorePointIsIn DEF BranchInv, LastIsActive, MessagesKeepTheirSnapshot, AtWorkOn
<1> QED BY <1>2, <1>3, <1>4, <1>5 DEF BranchInv

----------------------------------------------------------------------------
(* The invariant, kept by the steps that rewrite the run's own rows. *)

RewritesAsIs(c) ==
  /\ pc[c] \in {"work", "write"} /\ pc'[c] = "answer"
  /\ activeVersion' = activeVersion /\ anchor' = anchor
  /\ Rewrites(c, {turns[mine[c] + 1].version, NoVersion, base[c], activeVersion})

RewritesAccepting(c) ==
  /\ pc[c] = "wrote" /\ pc'[c] = "accepted"
  /\ activeVersion' = activeVersion /\ anchor' = activeVersion
  /\ Rewrites(c, {mine[c]})

RewritesRejecting(c) ==
  /\ pc[c] = "wrote" /\ pc'[c] = "answer"
  /\ activeVersion' = base[c] /\ anchor' = anchor
  /\ Rewrites(c, {NoVersion, base[c]})

Rewriting(c) ==
  \/ Reply(c) \/ WaitForProvider(c) \/ FailGeneration(c) \/ RejectStaleBase(c)
  \/ AcceptVersion(c) \/ RejectVersion(c)

LEMMA RewritingEffect ==
  ASSUME BranchInv, NEW c \in Calls, Rewriting(c)
  PROVE  /\ RewritesAsIs(c) \/ RewritesAccepting(c) \/ RewritesRejecting(c)
         /\ UNCHANGED <<versions, mine, base, found, left, seen>> /\ UNCHANGED controlVars
         /\ pc[c] \in {"work", "write", "wrote"} /\ pc'[c] \in {"accepted", "answer"}
<1>0. /\ TypeOK /\ TurnsInLine /\ RunsOwnTurns
      /\ pc \in [Calls -> {"idle", "done", "crashed"} \cup Holding]
  BY DEF BranchInv, TypeOK
<1>1. ASSUME Reply(c) \/ WaitForProvider(c) \/ FailGeneration(c) \/ RejectStaleBase(c)
      PROVE  /\ RewritesAsIs(c) /\ UNCHANGED <<versions, mine, base, found, left, seen>>
             /\ UNCHANGED controlVars
  <2>1. /\ pc[c] \in {"work", "write"} /\ pc'[c] = "answer"
        /\ activeVersion' = activeVersion /\ anchor' = anchor
        /\ UNCHANGED <<versions, mine, base, found, left, seen>> /\ UNCHANGED controlVars
    BY <1>0, <1>1 DEF Reply, WaitForProvider, FailGeneration, RejectStaleBase, Goto, historyVars
  <2>2. \/ Rewrites(c, {turns[mine[c] + 1].version, base[c]})
        \/ Rewrites(c, {turns[mine[c] + 1].version})
        \/ Rewrites(c, {NoVersion, activeVersion}) \/ Rewrites(c, {NoVersion})
    BY <1>0, <1>1, RewritingSteps
  <2>3. Rewrites(c, {turns[mine[c] + 1].version, NoVersion, base[c], activeVersion})
    BY <2>2 DEF Rewrites
  <2> QED BY <2>1, <2>3 DEF RewritesAsIs
<1>2. ASSUME AcceptVersion(c)
      PROVE  /\ RewritesAccepting(c) /\ UNCHANGED <<versions, mine, base, found, left, seen>>
             /\ UNCHANGED controlVars
  <2>1. Rewrites(c, {mine[c]})
    BY <1>0, <1>2, RewritingSteps
  <2> QED BY <1>0, <1>2, <2>1 DEF AcceptVersion, Goto, RewritesAccepting
<1>3. ASSUME RejectVersion(c)
      PROVE  /\ RewritesRejecting(c) /\ UNCHANGED <<versions, mine, base, found, left, seen>>
             /\ UNCHANGED controlVars
  <2>1. Rewrites(c, {NoVersion, base[c]})
    BY <1>0, <1>3, RewritingSteps
  <2> QED BY <1>0, <1>3, <2>1 DEF RejectVersion, Goto, historyVars, RewritesRejecting
<1> QED BY <1>1, <1>2, <1>3 DEF Rewriting, RewritesAsIs, RewritesAccepting, RewritesRejecting

LEMMA RewritingKeeps ==
  ASSUME BranchInv, NEW c \in Calls, Rewriting(c)
  PROVE  BranchInv'
<1>0. /\ TypeOK /\ TurnsInLine /\ RunsOwnTurns /\ OneRun /\ Step(c)
      /\ base[c] \in Version /\ activeVersion \in Version
  BY DEF BranchInv, TypeOK, Rewriting, Step
<1>1. /\ RewritesAsIs(c) \/ RewritesAccepting(c) \/ RewritesRejecting(c)
      /\ UNCHANGED <<versions, mine, base, found, left, seen>> /\ UNCHANGED controlVars
      /\ pc[c] \in {"work", "write", "wrote"} /\ pc'[c] \in {"accepted", "answer"}
  BY RewritingEffect
<1>2. /\ OneRun' /\ \A d \in Calls \ {c} : pc'[d] = pc[d] /\ pc[d] \notin Holding
      /\ pc' \in [Calls -> {"idle", "done", "crashed"} \cup Holding]
  BY <1>0, <1>1, OneRunStep, FrameOfStep DEF Holding
<1> DEFINE m == mine[c]  n == Len(turns)  v == turns'[m + 1].version
<1>3. /\ m \in Nat /\ m > 0 /\ m \in 1..n /\ m + 1 \in 1..n /\ m + 1 = n /\ n \in Nat
      /\ turns[m].role = "user" /\ turns[m + 1].role = "assistant"
  BY <1>0, <1>1, AnswerIsNext, RowsAreTyped DEF RunsOwnTurns, Working
<1>4. PICK V : /\ Rewrites(c, V)
               /\ V \subseteq {turns[m + 1].version, NoVersion, base[c], activeVersion, m}
               /\ m \in V => pc[c] = "wrote" \/ m \in {turns[m + 1].version, NoVersion, base[c], activeVersion}
  BY <1>1 DEF RewritesAsIs, RewritesAccepting, RewritesRejecting
<1>5. /\ turns' \in Seq(Slot) /\ turns \in Seq(Slot) /\ Len(turns') = n /\ DOMAIN turns' = 1..n
      /\ DOMAIN turns = 1..n
      /\ \A j \in 1..n : /\ turns'[j].role = turns[j].role /\ turns'[j].answers = turns[j].answers
                         /\ turns'[j].parent = turns[j].parent
      /\ \A j \in 1..n : j # m /\ j # m + 1 => turns'[j] = turns[j]
      /\ turns'[m].status \in {"active", "failed"} /\ turns'[m + 1].status \in {"active", "failed"}
      /\ v \in V /\ turns'[m].version \in {turns[m].version, v}
  <2>1. turns \in Seq(Slot) /\ DOMAIN turns = 1..n
    BY <1>0, RowsAreTyped DEF TypeOK
  <2>2. turns' \in Seq(Slot) /\ Len(turns') = n
    BY <1>4 DEF Rewrites
  <2>3. DOMAIN turns' = 1..n
    BY <2>2, LenProperties
  <2> QED BY <1>4, <2>1, <2>2, <2>3 DEF Rewrites
<1>6. TypeOK'
  <2>1. ControlTypeOK'
    BY <1>0, <1>1, RegistryTyped
  <2>2. activeVersion' \in Version /\ anchor' \in Version
    BY <1>0, <1>1 DEF TypeOK, RewritesAsIs, RewritesAccepting, RewritesRejecting
  <2> HIDE DEF v
  <2>9. row' \in Row
    BY <1>0, RowTyped DEF Next
  <2> QED BY <1>0, <1>1, <1>2, <1>5, <2>1, <2>2, <2>9 DEF TypeOK
<1>7. RoomLeft' /\ TurnsInLine'
  <2>1. RoomLeft'
    BY <1>1, <1>2 DEF RoomLeft, Entering, Holding
  <2> QED BY <1>3, <1>5, <2>1 DEF BranchInv, TurnsInLine
<1>8. RunsOwnTurns'
  <2>1. /\ pc'[c] \notin {"idle", "done", "retry", "generate"} \cup Entering
        /\ \A d \in Calls \ {c} : pc'[d] \notin {"retry", "generate"} \cup Working \cup Entering
    BY <1>1, <1>2 DEF Entering, Working, Holding
  <2>2. /\ turns'[m].role = "user" /\ turns'[m + 1].role = "assistant"
        /\ turns'[m].status \in {"active", "failed"} /\ turns'[m + 1].status \in {"active", "failed"}
    BY <1>3, <1>5
  <2>3. mine' = mine /\ Len(turns') = Len(turns)
    BY <1>1, <1>5
  <2>4. \A d \in Calls : pc'[d] \in {"idle", "done"} => mine[d] = 0
    BY <1>1, <1>2, <1>0 DEF RunsOwnTurns
  <2> QED BY <1>3, <2>1, <2>2, <2>3, <2>4 DEF RunsOwnTurns, Live
<1>9. NamedVersionsExist'
  <2>5. \A d \in Calls : pc'[d] # "wrote"
    BY <1>1, <1>2 DEF Holding
  <2> SUFFICES ASSUME "undo" \notin seen
               PROVE  /\ activeVersion' \in versions \cup {NoVersion}
                      /\ \A d \in Calls : base[d] \in versions \cup {NoVersion}
                      /\ \A j \in 1..n : turns'[j].version \in versions \cup {NoVersion}
    BY <1>1, <1>5, <2>5 DEF NamedVersionsExist
  <2>1. /\ activeVersion \in versions \cup {NoVersion}
        /\ \A d \in Calls : base[d] \in versions \cup {NoVersion}
        /\ \A j \in 1..n : turns[j].version \in versions \cup {NoVersion}
        /\ pc[c] = "wrote" => m \in versions
    BY <1>5 DEF BranchInv, NamedVersionsExist
  <2>2. v \in versions \cup {NoVersion}
    BY <1>3, <1>4, <1>5, <2>1
  <2>3. \A j \in 1..n : turns'[j].version \in versions \cup {NoVersion}
    BY <1>3, <1>5, <2>1, <2>2
  <2>4. activeVersion' \in versions \cup {NoVersion}
    BY <1>1, <2>1 DEF RewritesAsIs, RewritesAccepting, RewritesRejecting
  <2> QED BY <2>1, <2>3, <2>4
<1>10. AcceptedIsKept' /\ RetriesKeepTheirBase'
  <2>1. \A d \in Calls : pc'[d] \notin {"work", "write", "wrote", "retry", "generate"}
    BY <1>1, <1>2 DEF Holding
  <2>2. Quiet' => activeVersion' = anchor'
    <3>1. Quiet' <=> Quiet
      BY <1>1 DEF Quiet
    <3>2. CASE RewritesAsIs(c)
      <4>1. \A d \in Calls : pc[d] # "wrote"
        BY <1>2, <3>2 DEF RewritesAsIs, Holding
      <4> QED BY <3>1, <3>2, <4>1 DEF BranchInv, AcceptedIsKept, RewritesAsIs
    <3>3. CASE RewritesAccepting(c)
      BY <3>3 DEF RewritesAccepting
    <3>4. CASE RewritesRejecting(c)
      BY <3>1, <3>4 DEF BranchInv, AcceptedIsKept, RewritesRejecting
    <3> QED BY <1>1, <3>2, <3>3, <3>4
  <2> QED BY <2>1, <2>2 DEF AcceptedIsKept, RetriesKeepTheirBase
<1>11. ASSUME seen = {}
       PROVE  /\ turns[m].version = NoVersion /\ v \in {NoVersion, activeVersion'}
              /\ RestoreIn(turns', n) = activeVersion'
  <2>1. /\ turns[m].version = NoVersion /\ turns[m + 1].version = NoVersion
        /\ RestoreIn(turns, n) = base[c]
        /\ pc[c] \in {"work", "write"} => base[c] = activeVersion
        /\ pc[c] = "wrote" => activeVersion = m
    BY <1>1, <1>11, RestorePointIsIn DEF BranchInv, LastIsActive
  <2>2. \/ v \in {NoVersion, activeVersion'} /\ base[c] = activeVersion'
        \/ v = m /\ activeVersion' = m
    BY <1>1, <2>1 DEF RewritesAsIs, RewritesAccepting, RewritesRejecting, Rewrites
  <2>3. CASE v = NoVersion
    <3>1. m # NoVersion
      <4>1. n <= MaxTurns
        BY <1>0 DEF TypeOK
      <4> QED BY <1>0, <1>3, <4>1, RowsAreTyped
    <3>2. \A j \in 1..n : turns'[j].version = turns[j].version
      BY <1>3, <1>5, <2>1, <2>3
    <3>3. RestoreIn(turns', n) = RestoreIn(turns, n)
      <4> HIDE DEF v, m, n
      <4> QED BY <1>3, <1>5, <3>2, RestoresByVersion DEF n
    <3> QED BY <2>1, <2>2, <2>3, <3>1, <3>3
  <2>4. CASE v # NoVersion
    <3>1. n \in 1..Len(turns') /\ turns'[n].version = v /\ v # NoVersion
      BY <1>3, <1>5, <2>4
    <3>2. RestoreIn(turns', n) = v
      <4> HIDE DEF v, m, n
      <4> QED BY <1>5, <3>1, RestoresItsOwn
    <3> QED BY <2>1, <2>2, <2>4, <3>2
  <2> QED BY <2>1, <2>2, <2>3, <2>4
<1>12. LastIsActive'
  <2>1. \A d \in Calls : pc'[d] \notin {"work", "write", "wrote"}
    BY <1>1, <1>2 DEF Holding
  <2>2. seen' = {} => RestorePoint(Len(turns))' = activeVersion'
    BY <1>1, <1>5, <1>11, RestorePointIsIn
  <2> QED BY <2>1, <2>2 DEF LastIsActive
<1>13. MessagesKeepTheirSnapshot'
  <2> SUFFICES ASSUME seen = {}, NEW i \in 1..n, turns[i].role = "user"
               PROVE  IF turns'[i].version = NoVersion THEN RestoreIn(turns', i) = found[i]
                      ELSE turns'[i].version = (IF AtWorkOn(i)' THEN activeVersion' ELSE left[i])
    BY <1>1, <1>5, RestorePointIsIn DEF MessagesKeepTheirSnapshot
  <2>1. IF turns[i].version = NoVersion THEN RestoreIn(turns, i) = found[i]
        ELSE turns[i].version = (IF AtWorkOn(i) THEN activeVersion ELSE left[i])
    BY <1>5, RestorePointIsIn DEF BranchInv, MessagesKeepTheirSnapshot
  <2>2. (AtWorkOn(i) <=> i = m) /\ (AtWorkOn(i)' <=> i = m)
    BY <1>1, <1>2 DEF AtWorkOn, Holding
  <2>3. i <= m /\ i \in Nat /\ (i # m => \A j \in 1..i : j # m /\ j # m + 1)
    BY <1>3
  <2>4. CASE i = m /\ turns'[i].version # NoVersion
    BY <1>5, <1>11, <2>2, <2>4
  <2>5. CASE i # m \/ turns'[i].version = NoVersion
    <3>1. \A j \in 1..i : turns'[j].version = turns[j].version
      BY <1>3, <1>5, <1>11, <2>3, <2>5
    <3>2. RestoreIn(turns', i) = RestoreIn(turns, i)
      <4>1. i <= Len(turns) /\ i <= Len(turns')
        BY <1>3, <1>5, <2>3
      <4> HIDE DEF v, m, n
      <4> QED BY <1>5, <2>3, <3>1, <4>1, RestoresByVersion
    <3> QED BY <1>11, <2>1, <2>2, <2>3, <2>5, <3>1, <3>2
  <2> QED BY <2>4, <2>5
<1> QED BY <1>2, <1>6, <1>7, <1>8, <1>9, <1>10, <1>12, <1>13 DEF BranchInv

----------------------------------------------------------------------------
(* The invariant, kept by the steps that append a row. *)

(* The answer is appended, over the version the run starts from. *)
LEMMA GenerateKeeps ==
  ASSUME BranchInv, NEW c \in Calls, Generate(c)
  PROVE  BranchInv'
<1> DEFINE m == mine[c]
<1>0. TypeOK /\ OneRun /\ Step(c) /\ turns \in Seq(Slot) /\ Len(turns) \in Nat
  BY RowsAreTyped DEF BranchInv, TypeOK, Step
<1>1. /\ UNCHANGED <<versions, activeVersion, mine, anchor, found, left, seen>>
      /\ UNCHANGED controlVars /\ pc[c] = "generate" /\ pc'[c] = "work"
      /\ base' = [base EXCEPT ![c] = activeVersion] /\ base'[c] = activeVersion
      /\ turns' = Append(turns, AssistantTurn(m, activeVersion))
  BY <1>0 DEF TypeOK, Generate, Goto, historyVars
<1>2. /\ OneRun' /\ \A d \in Calls \ {c} : /\ pc'[d] = pc[d] /\ pc[d] \notin Holding
                                           /\ base'[d] = base[d]
      /\ pc' \in [Calls -> {"idle", "done", "crashed"} \cup Holding]
  BY <1>0, <1>1, OneRunStep, FrameOfStep DEF Holding
<1>3. /\ m = Len(turns) /\ m > 0 /\ m \in Nat /\ m \in 1..Len(turns) /\ m \in 0..MaxTurns
      /\ m + 1 <= MaxTurns /\ turns[m].role = "user" /\ turns[m].version = NoVersion
      /\ turns[m].status \in {"active", "failed"} /\ activeVersion \in Version
  <2>1. /\ m = Len(turns) /\ m > 0 /\ Len(turns) + 1 <= MaxTurns
        /\ turns[m].role = "user" /\ turns[m].version = NoVersion
        /\ turns[m].status \in {"active", "failed"} /\ activeVersion \in Version
    BY <1>1 DEF BranchInv, RunsOwnTurns, RoomLeft, Live, TypeOK
  <2> QED BY <1>0, <2>1, RowsAreTyped
<1>4. /\ turns' \in Seq(Slot) /\ Len(turns') = m + 1 /\ DOMAIN turns' = 1..(m + 1)
      /\ DOMAIN turns = 1..m /\ \A j \in 1..m : turns'[j] = turns[j]
      /\ turns'[m + 1] = AssistantTurn(m, activeVersion)
  <2>1. AssistantTurn(m, activeVersion) \in Slot
    BY <1>0, <1>3, NewRows
  <2> QED BY <1>0, <1>1, <1>3, <2>1, RowsAreTyped, AppendProperties, LenProperties
<1>5. /\ turns'[m + 1].role = "assistant" /\ turns'[m + 1].answers = m
      /\ turns'[m + 1].version = NoVersion /\ turns'[m + 1].status = "active"
      /\ turns'[m].role = "user" /\ turns'[m].version = NoVersion
      /\ turns'[m].status \in {"active", "failed"}
  BY <1>3, <1>4 DEF AssistantTurn
<1>6. TypeOK'
  <2>1. ControlTypeOK'
    BY <1>0, <1>1, RegistryTyped
  <2>2. base' \in [Calls -> Version]
    <3>1. base \in [Calls -> Version] /\ activeVersion \in Version
      BY <1>0 DEF TypeOK
    <3> QED BY <1>1, <3>1
  <2>9. row' \in Row
    BY <1>0, RowTyped DEF Next
  <2> QED BY <1>0, <1>1, <1>2, <1>3, <1>4, <2>1, <2>2, <2>9 DEF TypeOK
<1>7. RoomLeft' /\ TurnsInLine'
  <2>1. RoomLeft'
    BY <1>1, <1>2 DEF RoomLeft, Entering, Holding
  <2>2. \A j \in 1..(m + 1) : j \in 1..m \/ j = m + 1
    BY <1>3
  <2>3. \A j \in 1..m : IF turns'[j].role = "user" THEN turns'[j].answers = 0
                        ELSE j > 1 /\ turns'[j].answers = j - 1 /\ turns'[j - 1].role = "user"
    <3>1. \A j \in 1..m : j > 1 => j - 1 \in 1..m
      BY <1>3
    <3> QED BY <1>4, <3>1 DEF BranchInv, TurnsInLine
  <2>4. m + 1 > 1 /\ m + 1 - 1 = m
    BY <1>3
  <2>5. \A j \in DOMAIN turns' : IF turns'[j].role = "user" THEN turns'[j].answers = 0
          ELSE j > 1 /\ turns'[j].answers = j - 1 /\ turns'[j - 1].role = "user"
    <3> HIDE DEF m
    <3>1. \A j \in 1..m : IF turns'[j].role = "user" THEN turns'[j].answers = 0
            ELSE j > 1 /\ turns'[j].answers = j - 1 /\ turns'[j - 1].role = "user"
      BY <2>3
    <3>2. turns'[m + 1].role # "user" /\ turns'[m + 1].answers = m + 1 - 1
          /\ turns'[m + 1 - 1].role = "user"
      BY <1>5, <2>4
    <3> SUFFICES ASSUME NEW j \in 1..(m + 1)
                 PROVE  IF turns'[j].role = "user" THEN turns'[j].answers = 0
                        ELSE j > 1 /\ turns'[j].answers = j - 1 /\ turns'[j - 1].role = "user"
      BY <1>4
    <3>3. CASE j \in 1..m
      BY <3>1, <3>3
    <3>4. CASE j = m + 1
      BY <1>3, <3>2, <3>4
    <3> QED BY <2>2, <3>3, <3>4
  <2> QED BY <2>1, <2>5 DEF TurnsInLine
<1>8. RunsOwnTurns'
  <2>1. \A d \in Calls : /\ pc'[d] \notin {"retry", "generate"} \cup Entering
                         /\ pc'[d] \in Working => d = c
    BY <1>1, <1>2 DEF Entering, Working, Holding
  <2>2. \A d \in Calls : pc'[d] \in {"idle", "done"} => mine'[d] = 0
    BY <1>1, <1>2 DEF BranchInv, RunsOwnTurns
  <2> QED BY <1>1, <1>3, <1>4, <1>5, <2>1, <2>2 DEF RunsOwnTurns, Live
<1>9. NamedVersionsExist'
  <2>1. \A j \in 1..(m + 1) : j \in 1..m \/ j = m + 1
    BY <1>3
  <2> QED BY <1>1, <1>2, <1>4, <1>5, <2>1 DEF BranchInv, NamedVersionsExist, Holding
<1>10. AcceptedIsKept' /\ RetriesKeepTheirBase'
  <2>1. \A d \in Calls : /\ pc'[d] \notin {"write", "wrote", "retry", "generate"}
                         /\ pc[d] # "wrote" /\ (pc'[d] = "work" => d = c)
    BY <1>1, <1>2 DEF Holding
  <2> QED BY <1>1, <2>1 DEF BranchInv, AcceptedIsKept, RetriesKeepTheirBase, Quiet
<1>11. RestoreIn(turns', m + 1) = RestoreIn(turns, m)
       /\ \A i \in 1..m : RestoreIn(turns', i) = RestoreIn(turns, i)
  <2>1. m + 1 \in 1..Len(turns') /\ m + 1 - 1 = m
    BY <1>3, <1>4
  <2>2. RestoreIn(turns', m + 1) = RestoreIn(turns', m)
    <3> DEFINE k == m + 1
    <3>1. turns' \in Seq(Slot) /\ k \in 1..Len(turns') /\ turns'[k].version = NoVersion
      BY <1>4, <1>5, <2>1
    <3>2. RestoreIn(turns', k) = RestoreIn(turns', k - 1)
      <4> HIDE DEF k
      <4> QED BY <3>1, RestoresTheOneBefore
    <3>3. k - 1 = m
      BY <1>3
    <3> HIDE DEF k, m
    <3> QED BY <3>2, <3>3 DEF k
  <2>3. ASSUME NEW i \in 1..m PROVE RestoreIn(turns', i) = RestoreIn(turns, i)
    <3>1. i \in Nat /\ i <= Len(turns') /\ i <= Len(turns)
      BY <1>3, <1>4
    <3>2. \A j \in 1..i : turns'[j].version = turns[j].version
      BY <1>3, <1>4
    <3> QED BY <1>0, <1>4, <3>1, <3>2, RestoresByVersion
  <2> QED BY <1>3, <2>2, <2>3
<1>12. LastIsActive'
  <2>1. \A d \in Calls : /\ pc'[d] \notin {"write", "wrote"} /\ pc[d] # "wrote"
                         /\ (pc'[d] = "work" => d = c)
    BY <1>1, <1>2 DEF Holding
  <2>2. seen' = {} => RestorePoint(Len(turns))' = activeVersion
    BY <1>1, <1>3, <1>4, <1>11, <2>1, RestorePointIsIn DEF BranchInv, LastIsActive
  <2>3. mine'[c] = m
    BY <1>1
  <2> QED BY <1>1, <1>5, <2>1, <2>2, <2>3 DEF LastIsActive
<1>13. MessagesKeepTheirSnapshot'
  <2>1. \A i \in 1..m : AtWorkOn(i)' <=> AtWorkOn(i)
    BY <1>1, <1>2 DEF AtWorkOn, Holding
  <2>2. \A j \in 1..(m + 1) : j \in 1..m \/ j = m + 1
    BY <1>3
  <2>3. seen = {} => \A i \in 1..m : turns'[i].role = "user" =>
          IF turns'[i].version = NoVersion THEN RestoreIn(turns', i) = found[i]
          ELSE turns'[i].version = (IF AtWorkOn(i)' THEN activeVersion ELSE left[i])
    BY <1>4, <1>11, <2>1, RestorePointIsIn DEF BranchInv, MessagesKeepTheirSnapshot
  <2> QED BY <1>1, <1>4, <1>5, <2>2, <2>3, RestorePointIsIn DEF MessagesKeepTheirSnapshot
<1> QED BY <1>2, <1>6, <1>7, <1>8, <1>9, <1>10, <1>12, <1>13 DEF BranchInv

(* What holds of any step that appends a user turn, an edit included. *)
LEMMA InsertedRows ==
  ASSUME BranchInv, NEW c \in Calls, NEW parent \in 0..Len(turns), Inserts(parent), Step(c),
         pc[c] \in Entering \cup {"retry"}, pc'[c] \in {"generate", "answer"},
         mine'[c] = Len(turns) + 1
  PROVE  /\ OneRun' /\ RoomLeft' /\ TurnsInLine' /\ RunsOwnTurns'
         /\ \A d \in Calls \ {c} : pc'[d] = pc[d] /\ pc[d] \notin Holding
<1> DEFINE n == Len(turns)
<1>0. TypeOK /\ OneRun /\ n \in Nat /\ DOMAIN turns = 1..n
  BY RowsAreTyped DEF BranchInv
<1>1. /\ OneRun'
      /\ \A d \in Calls \ {c} : pc'[d] = pc[d] /\ pc[d] \notin Holding /\ mine'[d] = mine[d]
  BY <1>0, OneRunStep, FrameOfStep DEF Entering, Holding
<1>2. /\ turns' \in Seq(Slot) /\ Len(turns') = n + 1 /\ DOMAIN turns' = 1..(n + 1)
      /\ \A j \in 1..n : turns'[j].role = turns[j].role /\ turns'[j].answers = turns[j].answers
      /\ turns'[n + 1].role = "user" /\ turns'[n + 1].answers = 0
      /\ turns'[n + 1].status = "active" /\ turns'[n + 1].version = NoVersion
      /\ turns'[n + 1].parent = parent
  BY <1>0, LenProperties DEF Inserts, UserTurn
<1>3. RoomLeft'
  <2>1. n + 2 <= MaxTurns
    BY DEF BranchInv, RoomLeft
  <2>2. n + 1 + 1 <= MaxTurns
    BY <1>0, <2>1, RowsAreTyped
  <2>3. \A d \in Calls : /\ pc'[d] \notin Entering \cup {"retry"}
                         /\ pc'[d] = "generate" => d = c
    BY <1>1 DEF Entering, Holding
  <2> QED BY <1>2, <2>2, <2>3 DEF RoomLeft
<1>4. TurnsInLine'
  <2> SUFFICES ASSUME NEW j \in 1..(n + 1)
               PROVE  IF turns'[j].role = "user" THEN turns'[j].answers = 0
                      ELSE j > 1 /\ turns'[j].answers = j - 1 /\ turns'[j - 1].role = "user"
    BY <1>2 DEF TurnsInLine
  <2>1. CASE j \in 1..n
    <3>1. IF turns[j].role = "user" THEN turns[j].answers = 0
          ELSE j > 1 /\ turns[j].answers = j - 1 /\ turns[j - 1].role = "user"
      BY <1>0, <2>1 DEF BranchInv, TurnsInLine
    <3>2. j > 1 => j - 1 \in 1..n
      BY <1>0, <2>1
    <3> QED BY <1>2, <2>1, <3>1, <3>2
  <2>2. CASE j = n + 1
    BY <1>2, <2>2
  <2> QED BY <1>0, <2>1, <2>2
<1>5. RunsOwnTurns'
  <2>1. \A d \in Calls : /\ pc'[d] \notin {"retry"} \cup Entering \cup Working
                         /\ pc'[d] = "generate" => d = c
                         /\ pc'[d] \in {"idle", "done"} => mine'[d] = 0
    BY <1>1 DEF BranchInv, RunsOwnTurns, Entering, Working, Holding
  <2>2. mine'[c] = Len(turns') /\ mine'[c] = n + 1 /\ n + 1 > 0 /\ parent < n + 1
    BY <1>0, <1>2
  <2>3. \A d \in Calls : pc'[d] = "generate" => d = c
    BY <2>1
  <2> HIDE DEF n
  <2> QED BY <1>2, <2>1, <2>2 DEF RunsOwnTurns, Live
<1> QED BY <1>1, <1>3, <1>4, <1>5

(* A message is sent or a failed answer retried. *)
LEMMA InsertKeeps ==
  ASSUME BranchInv, NEW c \in Calls,
         AdmitMessage(c) \/ InsertRetry(c) \/ ResumePlanningAttempt(c)
  PROVE  BranchInv'
<1> DEFINE n == Len(turns)
<1>0. /\ TypeOK /\ OneRun /\ Step(c) /\ turns \in Seq(Slot) /\ n \in Nat /\ DOMAIN turns = 1..n
      /\ activeVersion \in Version
  BY RowsAreTyped DEF BranchInv, TypeOK, Step
<1>1. /\ UNCHANGED <<versions, activeVersion, base, anchor, left, seen>> /\ pc'[c] = "generate"
      /\ pc[c] \in Entering \cup {"retry"}
      /\ UNCHANGED controlVars \/ BindSessionRunTurn(Session, n + 1)
  BY <1>0 DEF TypeOK, AdmitMessage, InsertRetry, ResumePlanningAttempt, Goto, Entering
<1>2. n + 2 <= MaxTurns /\ n + 1 <= MaxTurns /\ n + 1 \in Turns /\ MaxTurns \in Nat
  <2>1. n + 2 <= MaxTurns
    BY <1>1 DEF BranchInv, RoomLeft
  <2> QED BY <1>0, <2>1, RowsAreTyped, ConversationConstants
<1>3. PICK parent \in 0..n :
        /\ InsertUserTurn(c, turns, parent, activeVersion)
        /\ parent = 0 \/ (pc[c] = "retry" /\ parent = mine[c])
  <2>1. CASE AdmitMessage(c) \/ ResumePlanningAttempt(c)
    BY <1>0, <2>1 DEF AdmitMessage, ResumePlanningAttempt
  <2>2. CASE InsertRetry(c)
    <3>1. pc[c] = "retry" /\ mine[c] \in 1..n
      BY <1>0, <2>2 DEF InsertRetry, BranchInv, RunsOwnTurns
    <3> QED BY <1>0, <2>2, <3>1 DEF InsertRetry
  <2> QED BY <2>1, <2>2
<1>4. /\ Inserts(parent) /\ \A j \in 1..n : turns'[j] = turns[j]
      /\ mine' \in [Calls -> 0..MaxTurns] /\ mine'[c] = n + 1
      /\ \A d \in Calls \ {c} : mine'[d] = mine[d]
      /\ found' \in [Turns -> Version] /\ (OnlyEdited => found'[n + 1] = activeVersion)
      /\ \A i \in 1..n : found'[i] = found[i]
  <2>1. parent \in 0..MaxTurns
    BY <1>0, <1>2
  <2> QED BY <1>0, <1>2, <1>3, <2>1, InsertsNext
<1>5. /\ OneRun' /\ RoomLeft' /\ TurnsInLine' /\ RunsOwnTurns'
      /\ \A d \in Calls \ {c} : pc'[d] = pc[d] /\ pc[d] \notin Holding
      /\ pc' \in [Calls -> {"idle", "done", "crashed"} \cup Holding]
  BY <1>0, <1>1, <1>4, InsertedRows, FrameOfStep
<1>6. /\ turns' \in Seq(Slot) /\ Len(turns') = n + 1 /\ DOMAIN turns' = 1..(n + 1)
      /\ turns'[n + 1].version = NoVersion /\ turns'[n + 1].parent = parent
      /\ \A j \in 1..(n + 1) : j \in 1..n \/ j = n + 1
  BY <1>0, <1>4, LenProperties DEF Inserts, UserTurn
<1>7. TypeOK'
  <2>1. ControlTypeOK'
    BY <1>0, <1>1, <1>2, RegistryTyped
  <2> HIDE DEF n
  <2>9. row' \in Row
    BY <1>0, RowTyped DEF Next
  <2> QED BY <1>0, <1>1, <1>2, <1>4, <1>5, <1>6, <2>1, <2>9 DEF TypeOK
<1>8. NamedVersionsExist' /\ AcceptedIsKept'
  <2>1. \A d \in Calls : pc'[d] \notin {"work", "write", "wrote"} /\ pc[d] # "wrote"
    BY <1>1, <1>5 DEF Holding, Entering
  <2>2. AcceptedIsKept'
    BY <1>1, <2>1 DEF BranchInv, AcceptedIsKept, Quiet
  <2> QED BY <1>0, <1>1, <1>4, <1>6, <2>1, <2>2 DEF BranchInv, NamedVersionsExist
<1>9. RetriesKeepTheirBase'
  <2>1. \A d \in Calls : pc'[d] # "retry" /\ (pc'[d] = "generate" => d = c)
    BY <1>1, <1>5 DEF Holding
  <2>2. parent > 0 => OnBaseOf(parent) /\ parent \in 1..n
    BY <1>0, <1>3 DEF BranchInv, RetriesKeepTheirBase
  <2>3. parent > 0 => OnBaseOf(parent)'
    BY <1>1, <1>4, <2>2 DEF OnBaseOf, FailedBase
  <2>4. turns'[mine'[c]].parent = parent
    BY <1>4, <1>6
  <2> QED BY <2>1, <2>3, <2>4 DEF RetriesKeepTheirBase
<1>10. /\ RestoreIn(turns', n + 1) = RestoreIn(turns, n)
       /\ \A i \in 1..n : RestoreIn(turns', i) = RestoreIn(turns, i)
  <2>1. RestoreIn(turns', n + 1) = RestoreIn(turns', n)
    <3> DEFINE k == n + 1
    <3>1. turns' \in Seq(Slot) /\ k \in 1..Len(turns') /\ turns'[k].version = NoVersion
      BY <1>0, <1>6
    <3>2. RestoreIn(turns', k) = RestoreIn(turns', k - 1)
      <4> HIDE DEF k
      <4> QED BY <3>1, RestoresTheOneBefore
    <3>3. k - 1 = n
      BY <1>0
    <3> HIDE DEF k, n
    <3> QED BY <3>2, <3>3 DEF k
  <2>2. ASSUME NEW i \in 0..n PROVE RestoreIn(turns', i) = RestoreIn(turns, i)
    <3>1. i \in Nat /\ i <= Len(turns') /\ i <= Len(turns)
      BY <1>0, <1>6
    <3>2. \A j \in 1..i : turns'[j].version = turns[j].version
      BY <1>0, <1>4
    <3> QED BY <1>0, <1>6, <3>1, <3>2, RestoresByVersion
  <2> QED BY <1>0, <2>1, <2>2
<1>11. LastIsActive'
  <2>1. \A d \in Calls : pc'[d] \notin {"work", "write", "wrote"} /\ pc[d] # "wrote"
    BY <1>1, <1>5 DEF Holding, Entering
  <2>2. seen' = {} => RestorePoint(Len(turns))' = activeVersion
    BY <1>1, <1>6, <1>10, <2>1, RestorePointIsIn DEF BranchInv, LastIsActive
  <2> QED BY <1>1, <2>1, <2>2 DEF LastIsActive
<1>12. MessagesKeepTheirSnapshot'
  <2>1. \A i \in 1..n : turns[i].role = "user" => ~AtWorkOn(i) /\ ~AtWorkOn(i)'
    <3>1. pc[c] \in Entering => mine[c] = 0
      BY DEF BranchInv, RunsOwnTurns
    <3>2. pc[c] = "retry" => turns[mine[c]].role = "assistant"
      BY DEF BranchInv, RunsOwnTurns
    <3>3. \A i \in 1..n : i # 0 /\ i # n + 1
      BY <1>0
    <3>4. \A d \in Calls : pc[d] \in Holding \/ pc'[d] \in Holding => d = c
      BY <1>5
    <3>5. \A i \in 1..n : turns[i].role = "user" => mine[c] # i
      BY <1>1, <3>1, <3>2, <3>3
    <3>6. \A i \in 1..n : mine'[c] # i
      BY <1>4, <3>3
    <3> QED BY <3>4, <3>5, <3>6 DEF AtWorkOn
  <2>2. seen = {} => \A i \in 1..n : turns'[i].role = "user" =>
          IF turns'[i].version = NoVersion THEN RestoreIn(turns', i) = found'[i]
          ELSE turns'[i].version = (IF AtWorkOn(i)' THEN activeVersion ELSE left[i])
    BY <1>0, <1>4, <1>10, <2>1, RestorePointIsIn DEF BranchInv, MessagesKeepTheirSnapshot
  <2>3. seen = {} => RestoreIn(turns', n + 1) = found'[n + 1]
    <3>1. (\A d \in Calls : pc[d] # "wrote") /\ (seen = {} => OnlyEdited)
      BY <1>1, <1>5 DEF Holding, Entering, OnlyEdited
    <3> QED BY <1>4, <1>10, <3>1, RestorePointIsIn DEF BranchInv, LastIsActive
  <2> QED BY <1>1, <1>6, <2>2, <2>3, RestorePointIsIn DEF MessagesKeepTheirSnapshot
<1> QED BY <1>5, <1>7, <1>8, <1>9, <1>11, <1>12 DEF BranchInv

(* A message is edited. *)
LEMMA EditKeeps ==
  ASSUME BranchInv, NEW c \in Calls, EditMessage(c)
  PROVE  BranchInv'
<1> DEFINE n == Len(turns)
<1>0. /\ TypeOK /\ OneRun /\ Step(c) /\ turns \in Seq(Slot) /\ n \in Nat /\ DOMAIN turns = 1..n
  BY RowsAreTyped DEF BranchInv, TypeOK, Step
<1>1. /\ UNCHANGED <<versions, base, left>> /\ UNCHANGED controlVars
      /\ seen' = seen \cup {"edit"} /\ pc[c] = "edit" /\ pc'[c] \in {"generate", "answer"}
  BY <1>0 DEF TypeOK, EditMessage, Goto
<1>2. n + 1 <= MaxTurns /\ MaxTurns \in Nat
  <2>1. n + 2 <= MaxTurns
    BY <1>1 DEF BranchInv, RoomLeft, Entering
  <2> QED BY <1>0, <2>1, RowsAreTyped
<1>3. PICK i \in DOMAIN turns :
        /\ Editable(i)
        /\ InsertUserTurn(c, Superseded(i), i, RestorePoint(i))
        /\ activeVersion' = RestorePoint(i)
        /\ anchor' = RestorePoint(i)
  BY DEF EditMessage
<1>4. RestorePoint(i) \in versions \cup {NoVersion} /\ RestorePoint(i) \in Version
  BY <1>0, <1>3 DEF Editable, TypeOK, Version
<1>5. /\ Inserts(i) /\ i \in 1..n /\ i \in 0..n
      /\ mine' \in [Calls -> 0..MaxTurns] /\ mine'[c] = n + 1
      /\ \A d \in Calls \ {c} : mine'[d] = mine[d]
      /\ found' \in [Turns -> Version]
  <2>1. i \in 1..n /\ i \in 0..n /\ i \in 0..MaxTurns
    BY <1>0, <1>2, <1>3
  <2> QED BY <1>0, <1>2, <1>3, <1>4, <2>1, SupersededRows, InsertsOver
<1>6. /\ OneRun' /\ RoomLeft' /\ TurnsInLine' /\ RunsOwnTurns'
      /\ \A d \in Calls \ {c} : pc'[d] = pc[d] /\ pc[d] \notin Holding
      /\ pc' \in [Calls -> {"idle", "done", "crashed"} \cup Holding]
  BY <1>0, <1>1, <1>5, InsertedRows, FrameOfStep DEF Entering
<1>7. /\ turns' \in Seq(Slot) /\ Len(turns') = n + 1 /\ DOMAIN turns' = 1..(n + 1)
      /\ \A j \in 1..n : turns'[j].version = turns[j].version /\ turns'[j].role = turns[j].role
      /\ turns'[n + 1].version = NoVersion /\ turns'[n + 1].parent = i
      /\ \A j \in 1..(n + 1) : j \in 1..n \/ j = n + 1
  BY <1>0, <1>5, LenProperties DEF Inserts, UserTurn
<1>8. TypeOK'
  <2>1. ControlTypeOK'
    BY <1>0, <1>1, RegistryTyped
  <2> HIDE DEF n
  <2>9. row' \in Row
    BY <1>0, RowTyped DEF Next
  <2> QED BY <1>0, <1>1, <1>2, <1>3, <1>4, <1>5, <1>6, <1>7, <2>1, <2>9 DEF TypeOK
<1>9. NamedVersionsExist' /\ AcceptedIsKept'
  <2>1. \A d \in Calls : pc'[d] \notin {"work", "write", "wrote"}
    BY <1>1, <1>6 DEF Holding
  <2> QED BY <1>0, <1>1, <1>3, <1>4, <1>7, <2>1 DEF BranchInv, NamedVersionsExist, AcceptedIsKept
<1>10. RetriesKeepTheirBase'
  <2>1. \A d \in Calls : pc'[d] # "retry" /\ (pc'[d] = "generate" => d = c)
    BY <1>1, <1>6 DEF Holding
  <2>2. turns'[mine'[c]].parent = i /\ turns'[i].role = "user"
    BY <1>3, <1>5, <1>7 DEF Editable
  <2> QED BY <2>1, <2>2 DEF RetriesKeepTheirBase
<1>11. LastIsActive' /\ MessagesKeepTheirSnapshot'
  BY <1>1 DEF LastIsActive, MessagesKeepTheirSnapshot
<1> QED BY <1>6, <1>8, <1>9, <1>10, <1>11 DEF BranchInv

----------------------------------------------------------------------------
(* The invariant holds throughout. *)

LEMMA BranchInit == Init => BranchInv
<1> SUFFICES ASSUME Init PROVE BranchInv
  OBVIOUS
<1>1. /\ turns = <<>> /\ turns \in Seq(Slot) /\ Len(turns) = 0 /\ DOMAIN turns = {}
      /\ NoVersion \in Version /\ MaxTurns \in Nat /\ Turns = 1..MaxTurns
  BY EmptySeq, ConversationConstants, LenProperties DEF Init, Version
<1>2. \A c \in Calls : pc[c] = "idle" /\ mine[c] = 0 /\ base[c] = NoVersion
  BY DEF Init
<1>3. TypeOK
  <2>1. ControlTypeOK
    BY DEF Init, ControlInit, ControlTypeOK
  <2>2. Unclaimed \in Row
    BY <1>1 DEF Unclaimed, Row
  <2> QED BY <1>1, <2>1, <2>2 DEF Init, TypeOK
<1>4. OneRun /\ RoomLeft /\ TurnsInLine /\ RunsOwnTurns
  BY <1>1, <1>2 DEF Init, ControlInit, OneRun, RoomLeft, TurnsInLine, RunsOwnTurns, Entering,
       Working, Holding
<1>5. NamedVersionsExist /\ AcceptedIsKept /\ RetriesKeepTheirBase
  BY <1>1, <1>2 DEF Init, NamedVersionsExist, AcceptedIsKept, RetriesKeepTheirBase
<1>6. LastIsActive /\ MessagesKeepTheirSnapshot
  <2>1. RestoreIn(turns, 0) = NoVersion
    <3>1. 0 \in 0..Len(turns) /\ 1..0 = {}
      BY <1>1
    <3> QED BY <1>1, <3>1, RestoresARow
  <2> QED BY <1>1, <1>2, <2>1, RestorePointIsIn DEF Init, LastIsActive, MessagesKeepTheirSnapshot
<1> QED BY <1>3, <1>4, <1>5, <1>6 DEF BranchInv

LEMMA BranchStep == BranchInv /\ [Next]_vars => BranchInv'
<1> SUFFICES ASSUME BranchInv, [Next]_vars PROVE BranchInv'
  OBVIOUS
<1>1. ASSUME NEW c \in Calls, Step(c) PROVE BranchInv'
  <2>1. CASE Rewriting(c)
    BY <2>1, RewritingKeeps
  <2> QED BY <1>1, <2>1, QuietMoveKeeps, CheckResumeKeeps, CommitVersionKeeps, UndoChoiceKeeps,
       PressChoiceKeeps, ReleaseKeeps, GenerateKeeps, InsertKeeps, EditKeeps DEF Step, Rewriting
<1>2. CASE (\E m \in Saves : UserSave(m)) \/ Restart
  BY <1>2, UserSaveKeeps, RestartKeeps
<1>3. CASE CancelRun \/ Over \/ UNCHANGED vars
  BY <1>3, RegistryOnlyKeeps DEF Over
<1> QED BY <1>1, <1>2, <1>3 DEF Next

(* The conversation's inductive invariant holds in every reachable state.  *)
THEOREM BranchingSafe == Spec => []BranchInv
<1>1. Init => BranchInv
  BY BranchInit
<1>2. BranchInv /\ [Next]_vars => BranchInv'
  BY BranchStep
<1> QED BY <1>1, <1>2, PTL DEF Spec

(* Rows, versions, stages and bookkeeping stay within their types          *)
(* (conversation_turns, conversation_sessions.active_version_id).          *)
THEOREM ConversationTyped == Spec => []TypeOK
<1>1. BranchInv => TypeOK
  BY DEF BranchInv
<1> QED BY <1>1, BranchingSafe, PTL

(* An answer directly follows the message it answers, whatever edits,      *)
(* retries, cancellations and restarts came between (_insert_turn).        *)
THEOREM AnswersFollowMessages == Spec => []AnswersFollow
<1>1. BranchInv => AnswersFollow
  <2> SUFFICES ASSUME BranchInv, NEW j \in DOMAIN turns, turns[j].role = "assistant"
               PROVE  turns[j].answers = j - 1 /\ turns[j - 1].role = "user"
    BY DEF AnswersFollow
  <2> QED BY DEF BranchInv, TurnsInLine
<1> QED BY <1>1, BranchingSafe, PTL

(* Until a choice is undone the version an edit would restore exists, so   *)
(* no live message answers 404 to its edit (_version_for_turn_restore).    *)
THEOREM LiveMessagesAreEditable == Spec => []MessagesStayEditable
<1>1. BranchInv => MessagesStayEditable
  <2> SUFFICES ASSUME BranchInv, "undo" \notin seen, NEW i \in DOMAIN turns
               PROVE  RestorePoint(i) \in versions \cup {NoVersion}
    BY DEF MessagesStayEditable, Editable
  <2>1. /\ turns \in Seq(Slot) /\ i \in 1..Len(turns) /\ i \in 0..Len(turns)
        /\ 1..i \subseteq DOMAIN turns
    <3>1. TypeOK /\ turns \in Seq(Slot)
      BY DEF BranchInv, TypeOK
    <3> QED BY <3>1, RowsAreTyped
  <2>2. RestoreIn(turns, i) = NoVersion \/ \E j \in 1..i : RestoreIn(turns, i) = turns[j].version
    BY <2>1, RestoresARow
  <2>3. \A j \in 1..i : turns[j].version \in versions \cup {NoVersion}
    BY <2>1 DEF BranchInv, NamedVersionsExist
  <2> QED BY <2>2, <2>3, RestorePointIsIn
<1> QED BY <1>1, BranchingSafe, PTL

(* With no run at work the active version is the one last accepted,        *)
(* restored or saved: what was refused, cancelled, rejected or failed left *)
(* the plan alone (_generate_for_user_turn's error paths).                 *)
THEOREM PlanIsAccounted == Spec => []PlanIsAccountedFor
<1>1. BranchInv => PlanIsAccountedFor
  <2> SUFFICES ASSUME BranchInv, Session \notin active, Quiet
               PROVE  activeVersion = anchor
    BY DEF PlanIsAccountedFor, Quiet
  <2>1. \A c \in Calls : pc[c] # "wrote"
    BY DEF BranchInv, OneRun, Holding
  <2> QED BY <2>1 DEF BranchInv, AcceptedIsKept
<1> QED BY <1>1, BranchingSafe, PTL

(* No step changes a superseded row: neither a run that was under way when *)
(* its message was edited nor any later one.                               *)
THEOREM SupersededStays == Spec => SupersededIsFinal
<1>1. BranchInv /\ [Next]_vars =>
        [\A j \in DOMAIN turns : turns[j].status = "superseded" => turns'[j] = turns[j]]_vars
  <2> SUFFICES ASSUME BranchInv, [Next]_vars, NEW j \in DOMAIN turns, turns[j].status = "superseded"
               PROVE  turns'[j] = turns[j]
    OBVIOUS
  <2>0. /\ TypeOK /\ TurnsInLine /\ RunsOwnTurns /\ turns \in Seq(Slot)
        /\ j \in 1..Len(turns) /\ Len(turns) \in Nat
    BY RowsAreTyped DEF BranchInv, TypeOK
  <2>1. ASSUME NEW c \in Calls, Step(c) PROVE turns'[j] = turns[j]
    <3>1. CASE Rewriting(c)
      <4>1. PICK V : Rewrites(c, V) /\ pc[c] \in {"work", "write", "wrote"}
        BY <3>1, RewritingEffect DEF RewritesAsIs, RewritesAccepting, RewritesRejecting
      <4>2. Live(mine[c]) /\ Live(mine[c] + 1)
        BY <4>1 DEF BranchInv, RunsOwnTurns, Working
      <4>3. j # mine[c] /\ j # mine[c] + 1
        BY <4>2 DEF Live
      <4> QED BY <2>0, <4>1, <4>3 DEF Rewrites
    <3>2. CASE AdmitMessage(c) \/ InsertRetry(c) \/ ResumePlanningAttempt(c)
      <4>1. PICK r : turns' = Append(turns, r) /\ r \in Slot
        <5>1. mine[c] \in 0..MaxTurns /\ 0 \in 0..MaxTurns
          BY <2>0, RowsAreTyped
        <5> QED BY <2>0, <3>2, <5>1, NewRows, RowsAreTyped DEF AdmitMessage, InsertRetry,
             ResumePlanningAttempt, InsertUserTurn
      <4> QED BY <2>0, <4>1, AppendProperties
    <3>3. CASE Generate(c)
      <4>1. mine[c] \in 0..MaxTurns /\ activeVersion \in Version
        BY <2>0 DEF TypeOK
      <4>2. AssistantTurn(mine[c], activeVersion) \in Slot
        BY <2>0, <4>1, NewRows
      <4> QED BY <2>0, <3>3, <4>2, AppendProperties DEF Generate
    <3>4. CASE EditMessage(c)
      <4>1. PICK i \in DOMAIN turns : InsertUserTurn(c, Superseded(i), i, RestorePoint(i))
        BY <3>4 DEF EditMessage
      <4>2. /\ Superseded(i) \in Seq(Slot) /\ Len(Superseded(i)) = Len(turns)
            /\ Superseded(i)[j] = turns[j]
        BY <2>0, <4>1, SupersededRows
      <4>3. UserTurn(i) \in Slot
        <5>1. i \in 0..MaxTurns
          BY <2>0, <4>1, RowsAreTyped
        <5> QED BY <2>0, <5>1, NewRows, RowsAreTyped
      <4> QED BY <2>0, <4>1, <4>2, <4>3, AppendProperties DEF InsertUserTurn
    <3>5. CASE turns' = turns
      BY <3>5
    <3> QED BY <2>1, <3>1, <3>2, <3>3, <3>4, <3>5 DEF Step, Rewriting, Enter, RefuseBusy,
         GiveUp, CheckResume, PressChoice, RaiseError, FenceWrite, CommitVersion, UndoChoice,
         FinishAccepted, AnswerCall, Release, dataVars
  <2>2. CASE turns' = turns
    BY <2>2
  <2> QED BY <2>1, <2>2 DEF Next, CancelRun, UserSave, Restart, Over, vars, dataVars
<1> QED BY <1>1, BranchingSafe, PTL DEF Spec, SupersededIsFinal

(* A retry generates on the version its failed answer was about, or on one *)
(* the user saved between the check and the generation                     *)
(* (resume_failed_turn).                                                   *)
THEOREM RetriesResumeOnTheirBase == Spec => ResumedOnItsBase
<1>1. BranchInv /\ [Next]_vars =>
        [\A c \in Calls :
           /\ pc[c] = "generate" /\ pc'[c] = "work"
           /\ turns[mine[c]].parent > 0 /\ turns[turns[mine[c]].parent].role = "assistant"
           => base'[c] \in {FailedBase(turns[mine[c]].parent)} \cup Saves]_vars
  <2> SUFFICES ASSUME BranchInv, [Next]_vars, NEW c \in Calls,
                      pc[c] = "generate", pc'[c] = "work",
                      turns[mine[c]].parent > 0, turns[turns[mine[c]].parent].role = "assistant"
               PROVE  base'[c] \in {FailedBase(turns[mine[c]].parent)} \cup Saves
    OBVIOUS
  <2>0. TypeOK /\ OneRun
    BY DEF BranchInv
  <2>1. OnBaseOf(turns[mine[c]].parent)
    BY DEF BranchInv, RetriesKeepTheirBase
  <2>2. base'[c] = activeVersion
    <3>1. ASSUME NEW d \in Calls, Step(d) PROVE base'[c] = activeVersion
      <4>1. d = c
        <5>1. d # c => pc'[c] = pc[c]
          BY <2>0, <3>1, FrameOfStep
        <5> QED BY <5>1
      <4>2. pc'[c] = "work" /\ pc[c] = "generate" /\ Step(c)
        BY <3>1, <4>1
      <4>3. Generate(c)
        BY <2>0, <4>2 DEF Step, TypeOK, Goto, Enter, RefuseBusy, GiveUp, AdmitMessage,
             EditMessage, CheckResume, InsertRetry, ResumePlanningAttempt, PressChoice,
             threadVars, Reply, WaitForProvider, FailGeneration, RaiseError, FenceWrite,
             CommitVersion, RejectStaleBase, AcceptVersion, RejectVersion, UndoChoice,
             FinishAccepted, AnswerCall, Release, Arrives
      <4> QED BY <2>0, <4>3 DEF Generate, TypeOK
    <3>2. CASE pc' = pc
      BY <3>2
    <3>3. CASE Restart
      BY <2>0, <3>3 DEF Restart, TypeOK, Holding
    <3> QED BY <3>1, <3>2, <3>3 DEF Next, CancelRun, UserSave, Over, vars, threadVars
  <2> QED BY <2>1, <2>2 DEF OnBaseOf
<1> QED BY <1>1, BranchingSafe, PTL DEF Spec, ResumedOnItsBase

(* Until the first edit, and as long as nothing was saved by hand, undone  *)
(* or lost, editing a message returns the version that was active when the *)
(* message came or the one its run left (edit_user_message).               *)
THEOREM FirstEditsReturn == Spec => UndisturbedEdit
<1>1. BranchInv /\ [Next]_vars =>
        [\A i \in DOMAIN turns : EditOf(i) /\ seen = {} => activeVersion' \in SnapshotOf(i)]_vars
  <2> SUFFICES ASSUME BranchInv, [Next]_vars, NEW i \in DOMAIN turns, EditOf(i), seen = {}
               PROVE  activeVersion' \in {found[i], left[i]}
    BY DEF SnapshotOf
  <2>0. /\ TypeOK /\ OneRun /\ turns \in Seq(Slot) /\ Len(turns) \in Nat
        /\ i \in 1..Len(turns) /\ i # 0
    BY RowsAreTyped DEF BranchInv, TypeOK
  <2>1. /\ Len(turns') = Len(turns) + 1 /\ turns'[Len(turns) + 1].role = "user"
        /\ turns'[Len(turns) + 1].parent = i /\ turns[i].role = "user"
    BY DEF EditOf
  <2>2. PICK c \in Calls : Step(c)
    <3>1. turns' # turns
      BY <2>0, <2>1
    <3> QED BY <3>1 DEF Next, CancelRun, UserSave, Restart, Over, vars, dataVars
  <2>3. EditMessage(c)
    <3>1. CASE Rewriting(c)
      <4>1. Len(turns') = Len(turns)
        BY <3>1, RewritingEffect DEF RewritesAsIs, RewritesAccepting, RewritesRejecting, Rewrites
      <4> QED BY <2>0, <2>1, <4>1
    <3>2. CASE AdmitMessage(c) \/ ResumePlanningAttempt(c) \/ InsertRetry(c)
      <4>1. PICK p \in 0..MaxTurns : /\ turns' = Append(turns, UserTurn(p))
                                     /\ p = 0 \/ turns[p].role = "assistant"
        <5>1. mine[c] \in 0..MaxTurns /\ 0 \in 0..MaxTurns
          BY <2>0, RowsAreTyped
        <5>2. pc[c] = "retry" => turns[mine[c]].role = "assistant"
          BY DEF BranchInv, RunsOwnTurns
        <5> QED BY <3>2, <5>1, <5>2 DEF AdmitMessage, ResumePlanningAttempt, InsertRetry,
             InsertUserTurn
      <4>2. turns'[Len(turns) + 1] = UserTurn(p)
        BY <2>0, <4>1, NewRows, AppendProperties
      <4>3. p = i
        BY <2>1, <4>2 DEF UserTurn
      <4> QED BY <2>0, <2>1, <4>1, <4>3
    <3>3. CASE Generate(c)
      <4>1. mine[c] \in 0..MaxTurns /\ activeVersion \in Version
        BY <2>0, RowsAreTyped DEF TypeOK
      <4>2. turns'[Len(turns) + 1] = AssistantTurn(mine[c], activeVersion)
        BY <2>0, <3>3, <4>1, NewRows, AppendProperties DEF Generate
      <4> QED BY <2>1, <4>2 DEF AssistantTurn
    <3>4. CASE turns' = turns
      BY <2>0, <2>1, <3>4
    <3> QED BY <2>2, <3>1, <3>2, <3>3, <3>4 DEF Step, Rewriting, Enter, RefuseBusy, GiveUp,
         CheckResume, PressChoice, RaiseError, FenceWrite, CommitVersion, UndoChoice,
         FinishAccepted, AnswerCall, Release, dataVars
  <2>4. activeVersion' = RestorePoint(i)
    <3>1. PICK k \in DOMAIN turns : /\ InsertUserTurn(c, Superseded(k), k, RestorePoint(k))
                                    /\ activeVersion' = RestorePoint(k)
      BY <2>3 DEF EditMessage
    <3>2. Superseded(k) \in Seq(Slot) /\ Len(Superseded(k)) = Len(turns)
      BY <2>0, SupersededRows
    <3>3. k \in 0..MaxTurns
      BY <2>0, RowsAreTyped
    <3>4. turns'[Len(turns) + 1] = UserTurn(k)
      BY <2>0, <3>1, <3>2, <3>3, NewRows, AppendProperties DEF InsertUserTurn
    <3>5. k = i
      BY <2>1, <3>4 DEF UserTurn
    <3> QED BY <3>1, <3>5
  <2>5. ~AtWorkOn(i)
    <3>1. pc[c] = "edit" /\ mine[c] = 0
      BY <2>3 DEF EditMessage, BranchInv, RunsOwnTurns, Entering
    <3>2. \A d \in Calls : pc[d] \in Holding => d = c
      BY <2>0, <3>1 DEF OneRun, Holding
    <3> QED BY <2>0, <3>1, <3>2 DEF AtWorkOn
  <2>6. IF turns[i].version = NoVersion THEN RestorePoint(i) = found[i]
        ELSE turns[i].version = left[i]
    BY <2>1, <2>5 DEF BranchInv, MessagesKeepTheirSnapshot
  <2>7. turns[i].version # NoVersion => RestorePoint(i) = turns[i].version
    BY <2>0, RestoresItsOwn, RestorePointIsIn
  <2> QED BY <2>4, <2>6, <2>7
<1> QED BY <1>1, BranchingSafe, PTL DEF Spec, UndisturbedEdit

=============================================================================
