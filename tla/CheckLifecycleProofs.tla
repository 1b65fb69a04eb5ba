------------------------ MODULE CheckLifecycleProofs ------------------------
(***************************************************************************)
(* What every implementation of CheckLifecycle gets, for any set of jobs,  *)
(* checks, commits and scores: a score is earned, and it is final.         *)
(***************************************************************************)
EXTENDS CheckLifecycle, TLAPS

\* The inductive invariant: types, and what a score is of; a check whose runs
\* go on, or that was never queued, came to nothing yet.
Inv ==
  /\ TypeOK
  /\ ScoresAreEarned
  /\ \A c \in Checks : stage[c] # "over" => outcome[c] = Undecided

LEMMA InitInv == Init => Inv
  BY DEF Init, Inv, TypeOK, ScoresAreEarned

LEMMA QueueInv == ASSUME Inv, NEW j \in Jobs, Queue(j) PROVE Inv' /\ score' = score
<1>1. /\ \A c \in Checks : JobOf[c] = j => stage[c] = "none"
      /\ UNCHANGED <<outcome, score, told>>
  BY DEF Queue
<1>2. PICK S \in SUBSET {c \in Checks : JobOf[c] = j}, at \in Commits \cup {0} :
        /\ stage' = [c \in Checks |-> IF c \in S THEN "going" ELSE stage[c]]
        /\ commit' = [c \in Checks |-> IF c \in S THEN at ELSE commit[c]]
  BY DEF Queue
<1>3. TypeOK'
  BY <1>1, <1>2 DEF Inv, TypeOK
<1>4. ScoresAreEarned'
  BY <1>1, <1>2 DEF Inv, TypeOK, ScoresAreEarned
<1>5. \A c \in Checks : stage'[c] # "over" => outcome'[c] = Undecided
  BY <1>1, <1>2 DEF Inv, TypeOK
<1> QED
  BY <1>1, <1>3, <1>4, <1>5 DEF Inv

LEMMA PinInv == ASSUME Inv, NEW c \in Checks, Pin(c) PROVE Inv' /\ score' = score
<1>1. PICK at \in Commits :
        /\ commit' = [commit EXCEPT ![c] = at] /\ commit[c] = 0
        /\ UNCHANGED <<stage, outcome, score, told>>
  BY DEF Pin
<1>2. TypeOK'
  BY <1>1 DEF Inv, TypeOK
<1>3. ScoresAreEarned'
  BY <1>1 DEF Inv, TypeOK, ScoresAreEarned
<1> QED
  BY <1>1, <1>2, <1>3 DEF Inv

LEMMA EndInv == ASSUME Inv, NEW S \in SUBSET Checks, End(S) PROVE Inv' /\ score' = score
<1>1. /\ \A c \in Checks :
            IF c \in S THEN stage[c] = "going" ELSE outcome'[c] = outcome[c]
      /\ stage' = [c \in Checks |-> IF c \in S THEN "over" ELSE stage[c]]
      /\ outcome' \in [Checks -> Scores \cup {Undecided}]
      /\ UNCHANGED <<commit, score, told>>
  BY DEF End
<1>2. TypeOK'
  BY <1>1 DEF Inv, TypeOK
<1>3. ScoresAreEarned'
  BY <1>1 DEF Inv, TypeOK, ScoresAreEarned
<1>4. \A c \in Checks : stage'[c] # "over" => outcome'[c] = Undecided
  BY <1>1 DEF Inv, TypeOK
<1> QED
  BY <1>1, <1>2, <1>3, <1>4 DEF Inv

LEMMA ScoreInv ==
  ASSUME Inv, NEW c \in Checks, Score(c)
  PROVE  Inv' /\ \A d \in Checks : score[d] # Undecided => score'[d] = score[d]
<1>1. /\ score[c] = Undecided /\ stage[c] = "over" /\ commit[c] # 0
      /\ score' = [score EXCEPT ![c] = outcome[c]]
      /\ UNCHANGED <<stage, commit, outcome, told>>
  BY DEF Score, Scorable
<1>2. TypeOK'
  BY <1>1 DEF Inv, TypeOK
<1>3. ScoresAreEarned'
  BY <1>1 DEF Inv, TypeOK, ScoresAreEarned
<1>4. \A d \in Checks : score[d] # Undecided => score'[d] = score[d]
  BY <1>1 DEF Inv, TypeOK
<1> QED
  BY <1>1, <1>2, <1>3, <1>4 DEF Inv

LEMMA TellInv == ASSUME Inv, NEW j \in Jobs, Tell(j) PROVE Inv' /\ score' = score
  BY DEF Inv, TypeOK, ScoresAreEarned, Tell

LEMMA NextInv ==
  ASSUME Inv, [Next]_vars
  PROVE  Inv' /\ \A c \in Checks : score[c] # Undecided => score'[c] = score[c]
<1>1. CASE UNCHANGED vars
  BY <1>1 DEF vars, Inv, TypeOK, ScoresAreEarned
<1>2. CASE Next
  BY <1>2, QueueInv, PinInv, EndInv, ScoreInv, TellInv DEF Next
<1> QED
  BY <1>1, <1>2

\* Every score is of a known commit and of runs that are all over, and says what
\* they came to (score_check and CheckRun.decide).
THEOREM ScoresAreEarnedHolds == Spec => []ScoresAreEarned
<1>1. Inv /\ [Next]_vars => Inv'
  BY NextInv
<1>2. Inv => ScoresAreEarned
  BY DEF Inv
<1> QED
  BY InitInv, <1>1, <1>2, PTL DEF Spec

\* A score, once saved, never becomes another one, however often its check is
\* scored again.
THEOREM ScoredOnceHolds == Spec => ScoredOnce
<1>1. Inv /\ [Next]_vars => Inv'
  BY NextInv
<1>2. Inv /\ [Next]_vars
      => [\A c \in Checks : score[c] # Undecided => score'[c] = score[c]]_vars
  BY NextInv
<1> QED
  BY InitInv, <1>1, <1>2, PTL DEF Spec, ScoredOnce
=============================================================================
