------------------------ MODULE BrowserClientProofs ------------------------
(***************************************************************************)
(* Theorems about Search, and about the page that sends the searches, for  *)
(* every number of searches and panels, every genre list and vocabulary,   *)
(* and every configuration of the breaker.                                 *)
(***************************************************************************)
EXTENDS BrowserClient, SharedLemmas, FiniteSetTheorems, SequenceTheorems

-----------------------------------------------------------------------------
(***************************************************************************)
(* What a step of a search does.                                           *)
(***************************************************************************)

LEMMA AttemptsType == TypeOK => settings.attempts \in Int
  BY SearchAssumption DEF TypeOK

\* What becomes of `s` when its genre lookup has left the breaker `b`: its call for results
\* ends with `o`, or has not ended, it awaits the load of `a`, and it goes to `p`.
Turns(s, how, b, o, a, p) ==
    /\ outcome' = [outcome EXCEPT ![s] = o]
    /\ asker' = [asker EXCEPT ![s] = a]
    /\ phase' = [phase EXCEPT ![s] = p]
    /\ o = "refused" => ~Allows(b, now)
    /\ o = "fault" => a = s /\ breaker' = AfterFailure(AfterAllows(b, now), now)
    /\ o # "fault" => breaker' = b \/ breaker' = AfterAllows(b, now)
    /\ p = "asking" => o = "none" /\ a = s
    /\ p = "awaiting" => o = "none" /\ a \in Searches \ {s}
    /\ p = "failed" => o \notin {"none", "results"} \/ how \notin {"listed"} \cup Outage

AtOnce == {"none", "results", "misfit", "refused", "unconfigured", "fault"}

\* The genre lookup of `s` is over: how it ended, and what follows in the same step.
Continues(s, how, b) ==
    /\ lookup' = [lookup EXCEPT ![s] = how]
    /\ \E o \in AtOnce, a \in Searches \cup {NoSearch},
          p \in {"asking", "awaiting", "answered", "failed"} : Turns(s, how, b, o, a, p)
    /\ found' = found \/ \E movies \in ResultLists : found' = [found EXCEPT ![s] = movies]

LEMMA LookupEnds ==
  ASSUME TypeOK, NEW s \in Searches, NEW how, NEW b, outcome[s] = "none", EndLookup(s, how, b)
  PROVE  Continues(s, how, b)
<1>1. lookup' = [lookup EXCEPT ![s] = how]
  BY DEF EndLookup
<1>2. asker = [asker EXCEPT ![s] = asker[s]] /\ asker[s] \in Searches \cup {NoSearch}
  BY DEF TypeOK
<1>3. outcome = [outcome EXCEPT ![s] = "none"]
  BY DEF TypeOK
<1>4. ASSUME NEW o \in AtOnce, NEW a \in Searches \cup {NoSearch},
             NEW p \in {"asking", "awaiting", "answered", "failed"}, Turns(s, how, b, o, a, p),
             found' = found \/ \E movies \in ResultLists : found' = [found EXCEPT ![s] = movies]
      PROVE  Continues(s, how, b)
  BY <1>1, <1>4 DEF Continues
<1>5. CASE how \notin {"listed"} \cup Outage
  <2>1. Turns(s, how, b, "none", asker[s], "failed") /\ found' = found
    BY <1>2, <1>5 DEF EndLookup, GiveUp, MoveTo, Conclude, Turns
  <2>2. QED
    BY <1>2, <1>4, <2>1 DEF AtOnce
<1>6. CASE how \in {"listed"} \cup Outage
  <2>1. AskForResults(s, how, b)
    BY <1>6 DEF EndLookup
  <2>2. CASE Recall(s, b)
    <3>1. CASE \E movies \in ResultLists : Answer(s, movies)
      <4>1. Turns(s, how, b, "results", asker[s], "answered")
        BY <1>2, <2>2, <3>1 DEF Recall, Answer, MoveTo, Conclude, Turns
      <4>2. \E movies \in ResultLists : found' = [found EXCEPT ![s] = movies]
        BY <3>1 DEF Answer
      <4>3. QED
        BY <1>2, <1>4, <4>1, <4>2 DEF AtOnce
    <3>2. CASE GiveUp(s, "misfit")
      <4>1. Turns(s, how, b, "misfit", asker[s], "failed") /\ found' = found
        BY <1>2, <2>2, <3>2 DEF Recall, GiveUp, MoveTo, Conclude, Turns
      <4>2. QED
        BY <1>2, <1>4, <4>1 DEF AtOnce
    <3>3. QED
      BY <2>2, <3>1, <3>2 DEF Recall
  <2>3. ASSUME NEW t \in Loading(s, how), Share(s, t, b) PROVE Continues(s, how, b)
    <3>1. t \in Searches \ {s}
      BY DEF Loading
    <3>2. Turns(s, how, b, "none", t, "awaiting") /\ found' = found
      BY <1>3, <2>3, <3>1 DEF Share, MoveTo, Turns
    <3>3. QED
      BY <1>4, <3>1, <3>2 DEF AtOnce
  <2>4. CASE Allows(b, now) /\ Send(s, AfterAllows(b, now))
    <3> DEFINE asked == AfterAllows(b, now)
    <3> HIDE DEF asked
    <3>1. Send(s, asked)
      BY <2>4 DEF asked
    <3>2. CASE settings.attempts < 1 /\ GiveUp(s, "fault")
      <4>1. breaker' = AfterFailure(AfterAllows(b, now), now)
        BY <3>1, <3>2 DEF Send, asked
      <4>2. Turns(s, how, b, "fault", s, "failed") /\ found' = found
        BY <3>1, <3>2, <4>1 DEF Send, GiveUp, MoveTo, Conclude, Turns
      <4>3. QED
        BY <1>4, <4>2 DEF AtOnce
    <3>3. CASE settings.attempts >= 1 /\ ~settings.token /\ GiveUp(s, "unconfigured")
      <4>1. breaker' = AfterAllows(b, now)
        BY <3>1, <3>3, AttemptsType DEF Send, asked
      <4>2. Turns(s, how, b, "unconfigured", s, "failed") /\ found' = found
        BY <3>1, <3>3, <4>1 DEF Send, GiveUp, MoveTo, Conclude, Turns
      <4>3. QED
        BY <1>4, <4>2 DEF AtOnce
    <3>4. CASE Sends /\ MoveTo(s, "asking") /\ UNCHANGED <<outcome, found>>
      <4>1. breaker' = AfterAllows(b, now)
        BY <3>1, <3>4, AttemptsType DEF Send, Sends, asked
      <4>2. Turns(s, how, b, "none", s, "asking") /\ found' = found
        BY <1>3, <3>1, <3>4, <4>1 DEF Send, MoveTo, Turns
      <4>3. QED
        BY <1>4, <4>2 DEF AtOnce
    <3>5. QED
      BY <3>1, <3>2, <3>3, <3>4 DEF Send
  <2>5. CASE ~Allows(b, now) /\ GiveUp(s, "refused") /\ breaker' = b /\ UNCHANGED asker
    <3>1. Turns(s, how, b, "refused", asker[s], "failed") /\ found' = found
      BY <1>2, <2>5 DEF GiveUp, MoveTo, Conclude, Turns
    <3>2. QED
      BY <1>2, <1>4, <3>1 DEF AtOnce
  <2>6. QED
    BY <2>1, <2>2, <2>3, <2>4, <2>5 DEF AskForResults
<1>7. QED
  BY <1>5, <1>6

\* A call for results is over.
Concludes(s, o) ==
    /\ outcome' = [outcome EXCEPT ![s] = o]
    /\ \E p \in {"answered", "failed"} :
        /\ phase' = [phase EXCEPT ![s] = p]
        /\ p = "failed" => o # "results"
    /\ found' = found \/ \E movies \in Seq(Movie) : found' = [found EXCEPT ![s] = movies]
    /\ UNCHANGED <<lookup, asker>>

\* What is known of a search from where it is.
Progress ==
    /\ leading # NoSearch => phase[leading] = "leading"
    /\ \A s \in Searches :
        /\ phase[s] \in {"unasked", "new", "leading", "following"} => lookup[s] = "none"
        /\ phase[s] \notin {"answered", "failed"} => outcome[s] = "none"
        /\ phase[s] = "leading" => leader[s] = s
        /\ phase[s] = "following" => leader[s] \in Searches \ {s}
        /\ phase[s] = "asking" => asker[s] = s
        /\ phase[s] = "awaiting" => asker[s] \in Searches \ {s}

\* A search begins to wait for the genre list.
Enters(s) ==
    /\ UNCHANGED <<lookup, asker, outcome, found>>
    /\ breaker' = breaker \/ breaker' = AfterAllows(breaker, now)
    /\ phase[s] = "new"
    /\ \/ /\ phase' = [phase EXCEPT ![s] = "following"]
          /\ leading # NoSearch /\ leader' = [leader EXCEPT ![s] = leading]
          /\ UNCHANGED leading
       \/ /\ phase' = [phase EXCEPT ![s] = "leading"]
          /\ leading' \in {s, NoSearch} /\ leader' = [leader EXCEPT ![s] = s]

\* Its wait ends, or it has not had to wait.
Leaves(s) ==
    /\ phase[s] \in {"new", "leading", "following"}
    /\ (leading' = leading /\ phase[s] # "leading") \/ leading' = NoSearch
    /\ leader' = leader \/ (phase[s] = "new" /\ leader' = [leader EXCEPT ![s] = s])

\* Its lookup has met no fault of its own, or has.
Calm(s, how) ==
    /\ \E b \in {breaker, AfterSuccess(breaker), AfterAllows(breaker, now)} : Continues(s, how, b)
    /\ how = "fault" => leader'[s] # s
    /\ how = "refused" => ~Allows(breaker, now) \/ \E t \in Searches : lookup[t] = "refused"

Faulty(s, how) ==
    /\ \E b \in {AfterFailure(breaker, now), AfterFailure(AfterAllows(breaker, now), now)} :
         Continues(s, how, b)
    /\ how = "fault" /\ leader'[s] = s

\* Its call for results ends, or it has not come to one.
Finishes(s, o) ==
    /\ phase[s] \in {"new", "asking", "awaiting"}
    /\ UNCHANGED <<leading, leader>>
    /\ Concludes(s, o)
    /\ \/ /\ breaker' \in {breaker, AfterSuccess(breaker)}
          /\ o = "fault" => asker[s] # s
          /\ o = "refused" => \E t \in Searches : outcome[t] = "refused"
       \/ o = "fault" /\ asker[s] = s /\ breaker' = AfterFailure(breaker, now)

\* The steps of a search, by what becomes of its lookup and of its call for results.
LEMMA StepKinds ==
  ASSUME TypeOK, Progress, NEW s \in Searches, Step(s)
  PROVE  \/ Enters(s)
         \/ Leaves(s) /\ \E how \in Lookup \ {"none"} : Calm(s, how) \/ Faulty(s, how)
         \/ \E o \in Outcome \ {"none"} : Finishes(s, o)
<1> DEFINE Looked == Leaves(s) /\ \E how \in Lookup \ {"none"} : Calm(s, how) \/ Faulty(s, how)
           Asked == \E o \in Outcome \ {"none"} : Finishes(s, o)
<1>a. phase[s] \in {"new", "leading", "following"} => outcome[s] = "none"
  BY DEF Progress
<1>1. CASE LookupFollow(s)
  BY <1>1 DEF LookupFollow, MoveTo, Starts, Enters
<1>2. CASE LookupLead(s)
  BY <1>2 DEF LookupLead, LookupAdmitted, MoveTo, Starts, Enters
<1>3. CASE LookupHit(s)
  <2>1. \E how \in {"listed", "misfit"} : EndLookup(s, how, breaker)
    BY <1>3 DEF LookupHit
  <2>2. Leaves(s) /\ outcome[s] = "none"
    BY <1>3, <1>a DEF LookupHit, Starts, Leaves
  <2>3. \E how \in {"listed", "misfit"} : Continues(s, how, breaker)
    BY <2>1, <2>2, LookupEnds
  <2>4. QED
    BY <2>2, <2>3 DEF Lookup, Defect, Calm
<1>4. CASE LookupRefused(s)
  <2>1. Leaves(s) /\ outcome[s] = "none" /\ ~Allows(breaker, now)
    BY <1>4, <1>a DEF LookupRefused, Starts, Leaves
  <2>2. Continues(s, "refused", breaker)
    BY <1>4, <2>1, LookupEnds DEF LookupRefused
  <2>3. QED
    BY <2>1, <2>2 DEF Lookup, Outage, Calm
<1>5. CASE LookupUnsent(s)
  <2>1. Leaves(s) /\ outcome[s] = "none" /\ leader'[s] = s
    BY <1>5, <1>a DEF LookupUnsent, LookupAdmitted, Starts, Leaves, TypeOK
  <2>2. CASE EndLookup(s, "fault", AfterFailure(AfterAllows(breaker, now), now))
    <3>1. Continues(s, "fault", AfterFailure(AfterAllows(breaker, now), now))
      BY <2>1, <2>2, LookupEnds
    <3>2. QED
      BY <2>1, <3>1 DEF Lookup, Outage, Faulty
  <2>3. CASE EndLookup(s, "unconfigured", AfterAllows(breaker, now))
    <3>1. Continues(s, "unconfigured", AfterAllows(breaker, now))
      BY <2>1, <2>3, LookupEnds
    <3>2. QED
      BY <2>1, <3>1 DEF Lookup, Outage, Calm
  <2>4. QED
    BY <1>5, <2>2, <2>3 DEF LookupUnsent
<1>6. CASE Lookups(s) \/ FollowerCancelled(s)
  <2>1. Leaves(s) /\ outcome[s] = "none"
    BY <1>6, <1>a DEF Lookups, LookupServed, LookupMissing, LookupFault, LookupOverflow,
                      LeaderCancelled, FollowerCancelled, EndLoad, Leaves
  <2>2. CASE \E how \in {"listed", "misfit", "missing"} : EndLookup(s, how, AfterSuccess(breaker))
    <3>1. \E how \in {"listed", "misfit", "missing"} : Continues(s, how, AfterSuccess(breaker))
      BY <2>1, <2>2, LookupEnds
    <3>2. QED
      BY <2>1, <3>1 DEF Lookup, Outage, Defect, Calm
  <2>3. CASE EndLookup(s, "fault", AfterFailure(breaker, now)) /\ LookupFault(s)
    <3>1. Continues(s, "fault", AfterFailure(breaker, now))
      BY <2>1, <2>3, LookupEnds
    <3>2. leader'[s] = s
      BY <2>3 DEF LookupFault, EndLoad, Progress
    <3>3. QED
      BY <2>1, <3>1, <3>2 DEF Lookup, Outage, Faulty
  <2>4. CASE \E how \in {"overflow", "cancelled"} : EndLookup(s, how, breaker)
    <3>1. \E how \in {"overflow", "cancelled"} : Continues(s, how, breaker)
      BY <2>1, <2>4, LookupEnds
    <3>2. QED
      BY <2>1, <3>1 DEF Lookup, Defect, Calm
  <2>5. QED
    BY <1>6, <2>2, <2>3, <2>4
       DEF Lookups, LookupServed, LookupMissing, LookupFault, LookupOverflow, LeaderCancelled,
           FollowerCancelled
<1>7. CASE Resume(s)
  <2> DEFINE how == lookup[leader[s]]
  <2>1. Leaves(s) /\ outcome[s] = "none" /\ how # "none" /\ UNCHANGED leader
    BY <1>7, <1>a DEF Resume, Leaves
  <2>2. leader[s] \in Searches \ {s}
    BY <1>7 DEF Resume, Progress
  <2>3. how \in Lookup \ {"none"}
    BY <2>1, <2>2 DEF TypeOK
  <2>4. Continues(s, how, breaker)
    BY <1>7, <2>1, LookupEnds DEF Resume
  <2>5. Calm(s, how)
    BY <2>1, <2>2, <2>4 DEF Calm
  <2>6. QED
    BY <2>1, <2>3, <2>5
<1>8. CASE TurnAway(s) \/ Reject(s) \/ Results(s) \/ AskerCancelled(s)
  <2>1. phase[s] \in {"new", "asking", "awaiting"} /\ UNCHANGED <<leading, leader, lookup, asker>>
    BY <1>8 DEF TurnAway, Reject, Results, ResultsServed, ResultsMissing, ResultsFault,
                ResultsOverflow, AskerCancelled, EndAsking
  <2>2. ASSUME NEW o \in Outcome \ {"none", "refused", "results"}, GiveUp(s, o)
        PROVE  Concludes(s, o)
    BY <2>1, <2>2 DEF Concludes, GiveUp, MoveTo, Conclude
  <2>3. ASSUME NEW movies \in ResultLists, Answer(s, movies)
        PROVE  Concludes(s, "results")
    BY <2>1, <2>3, ResultsAssumption DEF Concludes, Answer, MoveTo, Conclude
  <2>4. {"invalid", "limited", "misfit", "missing", "fault", "overflow", "cancelled"} \subseteq
          Outcome \ {"none", "refused", "results"}
    BY DEF Outcome, Outage, Defect
  <2>5. ASSUME NEW o \in {"results", "invalid", "limited", "misfit", "missing", "overflow", "cancelled"},
               Concludes(s, o), breaker' \in {breaker, AfterSuccess(breaker)}
        PROVE  Asked
    <3>1. Finishes(s, o) /\ o \in Outcome \ {"none"}
      BY <2>1, <2>4, <2>5 DEF Finishes, Outcome
    <3>2. QED
      BY <3>1
  <2>6. CASE TurnAway(s) \/ Reject(s) \/ AskerCancelled(s) \/ ResultsOverflow(s)
    <3>1. \E o \in {"limited", "invalid", "cancelled", "overflow"} : GiveUp(s, o)
      BY <2>6 DEF TurnAway, Reject, AskerCancelled, ResultsOverflow
    <3>2. breaker' = breaker
      BY <2>6 DEF TurnAway, Reject, AskerCancelled, ResultsOverflow
    <3>3. \E o \in {"limited", "invalid", "cancelled", "overflow"} : Concludes(s, o)
      BY <2>2, <2>4, <3>1
    <3>4. QED
      BY <2>5, <3>2, <3>3
  <2>7. CASE ResultsServed(s) \/ ResultsMissing(s)
    <3>1. \E o \in {"results", "misfit", "missing"} : Concludes(s, o)
      BY <2>2, <2>3, <2>4, <2>7 DEF ResultsServed, ResultsMissing
    <3>2. breaker' = AfterSuccess(breaker)
      BY <2>7 DEF ResultsServed, ResultsMissing
    <3>3. QED
      BY <2>5, <3>1, <3>2
  <2>8. CASE ResultsFault(s)
    <3>1. Concludes(s, "fault") /\ "fault" \in Outcome \ {"none"}
      BY <2>2, <2>4, <2>8 DEF ResultsFault
    <3>2. asker[s] = s /\ breaker' = AfterFailure(breaker, now)
      BY <2>8 DEF ResultsFault, EndAsking, Progress
    <3>3. Finishes(s, "fault")
      BY <2>1, <3>1, <3>2 DEF Finishes
    <3>4. QED
      BY <3>1, <3>3
  <2>9. QED
    BY <1>8, <2>6, <2>7, <2>8 DEF Results
<1>9. CASE ResumeResults(s)
  <2> DEFINE o == outcome[asker[s]]
  <2>1. /\ phase[s] = "awaiting" /\ o # "none"
        /\ UNCHANGED <<breaker, leading, leader, lookup, asker>>
    BY <1>9 DEF ResumeResults
  <2>2. asker[s] \in Searches \ {s}
    BY <2>1 DEF Progress
  <2>3. o \in Outcome \ {"none"} /\ found[asker[s]] \in Seq(Movie)
    BY <2>1, <2>2 DEF TypeOK
  <2>4. Concludes(s, o)
    BY <1>9, <2>1, <2>3 DEF ResumeResults, Concludes, MoveTo, Conclude
  <2>5. Finishes(s, o)
    BY <2>1, <2>2, <2>4 DEF Finishes
  <2>6. QED
    BY <2>3, <2>5
<1>10. QED
  BY <1>1, <1>2, <1>3, <1>4, <1>5, <1>6, <1>7, <1>8, <1>9
     DEF Step, Start, Followers
-----------------------------------------------------------------------------
(***************************************************************************)
(* Types and progress.                                                     *)
(***************************************************************************)

\* What a breaker becomes in a step is a breaker.
AfterLookup == {breaker, AfterSuccess(breaker), AfterAllows(breaker, now), AfterFailure(breaker, now),
                AfterFailure(AfterAllows(breaker, now), now)}

LEMMA Breakers ==
  ASSUME TypeOK, NEW b \in AfterLookup
  PROVE  /\ b \in Breaker /\ AfterAllows(b, now) \in Breaker
         /\ AfterFailure(AfterAllows(b, now), now) \in Breaker
<1>1. now \in Nat /\ breaker \in Breaker
  BY DEF TypeOK
<1>2. AfterAllows(breaker, now) \in Breaker
  BY <1>1, AfterAllowsOK
<1>3. b \in Breaker
  BY <1>1, <1>2, AfterSuccessOK, AfterFailureOK DEF AfterLookup
<1>4. AfterAllows(b, now) \in Breaker
  BY <1>1, <1>3, AfterAllowsOK
<1>5. QED
  BY <1>1, <1>3, <1>4, AfterFailureOK

LEMMA ContinuesTypes ==
  ASSUME TypeOK, NEW s \in Searches, NEW how \in Lookup, NEW b \in AfterLookup, Continues(s, how, b)
  PROVE  /\ breaker' \in Breaker
         /\ phase' \in [Searches -> Phase]
         /\ lookup' \in [Searches -> Lookup]
         /\ asker' \in [Searches -> Searches \cup {NoSearch}]
         /\ outcome' \in [Searches -> Outcome]
         /\ found' \in [Searches -> Seq(Movie)]
<1>1. PICK o \in AtOnce, a \in Searches \cup {NoSearch},
           p \in {"asking", "awaiting", "answered", "failed"} : Turns(s, how, b, o, a, p)
  BY DEF Continues
<1>2. breaker' \in Breaker
  BY <1>1, Breakers DEF Turns
<1>3. phase' \in [Searches -> Phase]
  BY <1>1 DEF TypeOK, Turns, Phase
<1>4. lookup' \in [Searches -> Lookup]
  BY DEF TypeOK, Continues
<1>5. asker' \in [Searches -> Searches \cup {NoSearch}]
  BY <1>1 DEF TypeOK, Turns
<1>6. outcome' \in [Searches -> Outcome]
  <2>1. AtOnce \subseteq Outcome
    BY DEF AtOnce, Outcome, Outage, Defect
  <2>2. QED
    BY <1>1, <2>1 DEF TypeOK, Turns
<1>7. found' \in [Searches -> Seq(Movie)]
  BY ResultsAssumption DEF TypeOK, Continues
<1>8. QED
  BY <1>2, <1>3, <1>4, <1>5, <1>6, <1>7

\* A step of a search keeps the settings, the clock and the prompts.
LEMMA StepFrame ==
  ASSUME NEW s \in Searches, Step(s)
  PROVE  UNCHANGED <<settings, now, prompt>>
BY DEF Step, Start, TurnAway, Reject, LookupHit, LookupFollow, LookupAdmitted, LookupLead,
       LookupUnsent, LookupRefused, Starts,
       Lookups, LookupServed, LookupMissing, LookupFault, LookupOverflow, LeaderCancelled, EndLoad,
       Followers, Resume, FollowerCancelled,
       Results, ResultsServed, ResultsMissing, ResultsFault, ResultsOverflow, ResumeResults,
       AskerCancelled, EndAsking

\* It keeps the types.
LEMMA StepTypes ==
  ASSUME TypeOK, Progress, NEW s \in Searches, Step(s)
  PROVE  TypeOK'
<1>1. settings' \in Deployments /\ now' \in Nat /\ prompt' \in [Searches -> Seq(Pieces)]
  BY StepFrame DEF TypeOK
<1>2. genreDoc' \in {"cold", "fit", "misfit"}
  BY DEF TypeOK, Step, Start, TurnAway, Reject, LookupHit, LookupFollow, LookupAdmitted, LookupLead,
         LookupUnsent, LookupRefused, Starts,
         Lookups, LookupServed, LookupMissing, LookupFault, LookupOverflow, LeaderCancelled, EndLoad,
         Followers, Resume, FollowerCancelled,
         Results, ResultsServed, ResultsMissing, ResultsFault, ResultsOverflow, ResumeResults,
         AskerCancelled, EndAsking
<1> DEFINE Rest == /\ breaker' \in Breaker
                   /\ leading' \in Searches \cup {NoSearch}
                   /\ phase' \in [Searches -> Phase]
                   /\ leader' \in [Searches -> Searches \cup {NoSearch}]
                   /\ lookup' \in [Searches -> Lookup]
                   /\ asker' \in [Searches -> Searches \cup {NoSearch}]
                   /\ outcome' \in [Searches -> Outcome]
                   /\ found' \in [Searches -> Seq(Movie)]
<1>3. ASSUME Enters(s) PROVE Rest
  <2>1. breaker' \in Breaker
    BY <1>3, Breakers DEF Enters, AfterLookup
  <2>2. phase' \in [Searches -> Phase]
    BY <1>3 DEF TypeOK, Enters, Phase
  <2>3. leading' \in Searches \cup {NoSearch}
    BY <1>3 DEF TypeOK, Enters
  <2>4. leader' \in [Searches -> Searches \cup {NoSearch}]
    BY <1>3 DEF TypeOK, Enters
  <2>5. QED
    BY <1>3, <2>1, <2>2, <2>3, <2>4 DEF TypeOK, Enters
<1>4. ASSUME Leaves(s), NEW how \in Lookup, NEW b \in AfterLookup, Continues(s, how, b)
      PROVE  Rest
  <2>1. leading' \in Searches \cup {NoSearch}
    BY <1>4 DEF TypeOK, Leaves
  <2>2. leader' \in [Searches -> Searches \cup {NoSearch}]
    BY <1>4 DEF TypeOK, Leaves
  <2>3. QED
    BY <1>4, <2>1, <2>2, ContinuesTypes
<1>5. ASSUME NEW o \in Outcome, Finishes(s, o) PROVE Rest
  <2>1. breaker' \in Breaker
    BY <1>5, Breakers DEF Finishes, AfterLookup
  <2>2. QED
    BY <1>5, <2>1 DEF TypeOK, Finishes, Concludes, Phase
<1>6. Rest
  BY StepKinds, <1>3, <1>4, <1>5 DEF Calm, Faulty, AfterLookup
<1>7. QED
  BY <1>1, <1>2, <1>6 DEF TypeOK

\* It keeps track of where searches are.
LEMMA StepProgress ==
  ASSUME TypeOK, Progress, NEW s \in Searches, Step(s)
  PROVE  Progress'
<1> USE DEF TypeOK, Progress, Phase
<1>1. CASE Enters(s)
  <2>1. /\ phase[s] = "new" /\ UNCHANGED <<lookup, asker, outcome>>
        /\ leading # s
    BY <1>1, SearchAssumption DEF Enters
  <2>2. CASE /\ phase' = [phase EXCEPT ![s] = "following"]
             /\ leading # NoSearch /\ leader' = [leader EXCEPT ![s] = leading]
             /\ UNCHANGED leading
    BY <2>1, <2>2
  <2>3. CASE /\ phase' = [phase EXCEPT ![s] = "leading"]
             /\ leading' \in {s, NoSearch} /\ leader' = [leader EXCEPT ![s] = s]
    BY <2>1, <2>3
  <2>4. QED
    BY <1>1, <2>2, <2>3 DEF Enters
<1>2. ASSUME Leaves(s), NEW how, NEW b, Continues(s, how, b)
      PROVE  Progress'
  <2>1. PICK o \in AtOnce, a \in Searches \cup {NoSearch},
             p \in {"asking", "awaiting", "answered", "failed"} : Turns(s, how, b, o, a, p)
    BY <1>2 DEF Continues
  <2>2. leading' # NoSearch => phase'[leading'] = "leading"
    BY <1>2, <2>1 DEF Leaves, Turns
  <2>3. \A t \in Searches \ {s} :
          /\ phase'[t] = phase[t] /\ lookup'[t] = lookup[t] /\ outcome'[t] = outcome[t]
          /\ leader'[t] = leader[t] /\ asker'[t] = asker[t]
    BY <1>2, <2>1 DEF Leaves, Continues, Turns
  <2>4. phase'[s] = p /\ outcome'[s] = o /\ asker'[s] = a
    BY <2>1 DEF Turns
  <2>5. QED
    BY <2>1, <2>2, <2>3, <2>4 DEF Turns
<1>3. ASSUME NEW o, Finishes(s, o)
      PROVE  Progress'
  BY <1>3 DEF Finishes, Concludes
<1>4. QED
  BY StepKinds, <1>1, <1>2, <1>3 DEF Calm, Faulty

\* The steps that are not a search's own.
Others == (\E s \in Searches, text \in Seq(Pieces) : Submit(s, text)) \/ Forget \/ Tick

LEMMA OthersKeep ==
  ASSUME TypeOK, Progress, Others \/ UNCHANGED vars
  PROVE  TypeOK' /\ Progress'
<1> USE DEF TypeOK, Progress, Phase
<1>1. CASE \E s \in Searches, text \in Seq(Pieces) : Submit(s, text)
  BY <1>1 DEF Submit, MoveTo
<1>2. CASE Forget \/ Tick \/ UNCHANGED vars
  BY <1>2 DEF Forget, Tick, vars
<1>3. QED
  BY <1>1, <1>2 DEF Others

\* The variables of the searches always have their types.
THEOREM TypeCorrect == Spec => [](TypeOK /\ Progress)
<1>1. Init => TypeOK /\ Progress
  <2>1. InitialBreaker \in Breaker
    BY InitialBreakerOK
  <2>2. QED
    BY <2>1 DEF Init, TypeOK, Progress, Phase, Lookup, Outcome
<1>2. TypeOK /\ Progress /\ [Next]_vars => (TypeOK /\ Progress)'
  BY StepTypes, StepProgress, OthersKeep DEF Next, Others
<1>3. QED
  BY <1>1, <1>2, PTL DEF Spec
-----------------------------------------------------------------------------
(***************************************************************************)
(* Refusals and failures have causes.                                      *)
(***************************************************************************)

Faults == Cardinality(FaultyLookups) + Cardinality(FaultyAnswers)

LEMMA FaultsFinite ==
  /\ IsFiniteSet(FaultyLookups) /\ Cardinality(FaultyLookups) \in Nat
  /\ IsFiniteSet(FaultyAnswers) /\ Cardinality(FaultyAnswers) \in Nat
  /\ Faults \in Nat
<1>1. IsFiniteSet(FaultyLookups) /\ IsFiniteSet(FaultyAnswers)
  BY SearchAssumption, FS_Subset DEF FaultyLookups, FaultyAnswers
<1>2. QED
  BY <1>1, FS_CardinalityType DEF Faults

\* The run the breaker counts is covered by n calls that met faults.
Paid(b, n) == b \in Breaker /\ Coherent(b) /\ b.failures <= n

LEMMA Payment ==
  ASSUME NEW b, NEW n \in Nat, Paid(b, n), NEW t \in Nat
  PROVE  /\ Paid(AfterAllows(b, t), n)
         /\ Paid(AfterSuccess(b), n)
         /\ Paid(AfterFailure(b, t), n + 1)
         /\ ~Allows(b, t) => n >= Threshold
<1>1. b \in Breaker /\ Coherent(b) /\ b.failures <= n /\ b.failures \in Nat
  BY DEF Paid, Breaker
<1>2. Paid(AfterAllows(b, t), n)
  BY <1>1, AfterAllowsOK DEF Paid
<1>3. Paid(AfterSuccess(b), n)
  BY <1>1, AfterSuccessOK DEF Paid
<1>4. Paid(AfterFailure(b, t), n + 1)
  <2>1. /\ AfterFailure(b, t) \in Breaker /\ Coherent(AfterFailure(b, t))
        /\ AfterFailure(b, t).failures = b.failures + 1
    BY <1>1, AfterFailureOK
  <2>2. b.failures + 1 <= n + 1
    BY <1>1
  <2>3. QED
    BY <2>1, <2>2 DEF Paid
<1>5. ~Allows(b, t) => n >= Threshold
  BY <1>1, ThresholdType DEF Allows, Coherent
<1>6. QED
  BY <1>2, <1>3, <1>4, <1>5

Refusing == \E s \in Searches : "refused" \in {lookup[s], outcome[s]}

\* Why a search failed.
FailedForCause ==
    \A s \in Searches : phase[s] = "failed" =>
        \/ outcome[s] \notin {"none", "results"}
        \/ lookup[s] \in Defect

CauseInv == Paid(breaker, Faults) /\ (Refusing => Faults >= Threshold) /\ FailedForCause

\* A search is told `o` at its call for results, for which `n` faulty calls have paid
\* before: `met` is whether it has met a fault itself.
LEMMA AnswersPaid ==
  ASSUME TypeOK, NEW s \in Searches, outcome[s] = "none", NEW o,
         outcome' = [outcome EXCEPT ![s] = o], asker' \in [Searches -> Searches \cup {NoSearch}],
         \A t \in Searches \ {s} : asker'[t] = asker[t]
  PROVE  /\ o = "fault" /\ asker'[s] = s =>
              Cardinality(FaultyAnswers') = Cardinality(FaultyAnswers) + 1
         /\ ~(o = "fault" /\ asker'[s] = s) => FaultyAnswers' = FaultyAnswers
<1> USE DEF TypeOK
<1>1. CASE o = "fault" /\ asker'[s] = s
  <2>1. s \notin FaultyAnswers /\ FaultyAnswers' = FaultyAnswers \cup {s}
    BY <1>1 DEF FaultyAnswers
  <2>2. QED
    BY <1>1, <2>1, FaultsFinite, FS_AddElement
<1>2. CASE ~(o = "fault" /\ asker'[s] = s)
  BY <1>2 DEF FaultyAnswers
<1>3. QED
  BY <1>1, <1>2

\* The lookup of `s` ends, and meets a fault or does not.
LEMMA LookupsPaid ==
  ASSUME TypeOK, Progress, Paid(breaker, Faults), NEW s \in Searches, Leaves(s),
         NEW how \in Lookup \ {"none"}, lookup' = [lookup EXCEPT ![s] = how], NEW b,
         \/ /\ b \in {breaker, AfterSuccess(breaker), AfterAllows(breaker, now)}
            /\ how = "fault" => leader'[s] # s
         \/ /\ b \in {AfterFailure(breaker, now), AfterFailure(AfterAllows(breaker, now), now)}
            /\ how = "fault" /\ leader'[s] = s
  PROVE  /\ Cardinality(FaultyLookups') \in Nat
         /\ Cardinality(FaultyLookups') >= Cardinality(FaultyLookups)
         /\ Paid(b, Cardinality(FaultyLookups') + Cardinality(FaultyAnswers))
<1> USE DEF TypeOK, Progress
<1>1. lookup[s] = "none" /\ \A t \in Searches \ {s} : leader'[t] = leader[t]
  BY DEF Leaves
<1>2. Faults \in Nat /\ now \in Nat /\ Cardinality(FaultyLookups) \in Nat
  BY FaultsFinite
<1>3. Paid(AfterAllows(breaker, now), Faults)
  BY <1>2, Payment
<1>4. CASE /\ b \in {breaker, AfterSuccess(breaker), AfterAllows(breaker, now)}
           /\ how = "fault" => leader'[s] # s
  <2>1. FaultyLookups' = FaultyLookups
    BY <1>1, <1>4 DEF FaultyLookups
  <2>2. Paid(b, Faults)
    BY <1>2, <1>3, <1>4, Payment
  <2>3. QED
    BY <1>2, <2>1, <2>2 DEF Faults
<1>5. CASE /\ b \in {AfterFailure(breaker, now), AfterFailure(AfterAllows(breaker, now), now)}
           /\ how = "fault" /\ leader'[s] = s
  <2>1. s \notin FaultyLookups /\ FaultyLookups' = FaultyLookups \cup {s}
    <3>1. lookup'[s] = "fault" /\ \A t \in Searches \ {s} : lookup'[t] = lookup[t]
      BY <1>5
    <3>2. QED
      BY <1>1, <1>5, <3>1 DEF FaultyLookups
  <2>2. Cardinality(FaultyLookups') = Cardinality(FaultyLookups) + 1
    BY <2>1, FaultsFinite, FS_AddElement
  <2>3. Paid(AfterFailure(breaker, now), Faults + 1)
    BY <1>2, Payment
  <2>4. Paid(AfterFailure(AfterAllows(breaker, now), now), Faults + 1)
    BY <1>2, <1>3, Payment
  <2>5. Faults + 1 = Cardinality(FaultyLookups') + Cardinality(FaultyAnswers)
    BY <2>2, FaultsFinite DEF Faults
  <2>6. QED
    BY <1>2, <1>5, <2>2, <2>3, <2>4, <2>5
<1>6. QED
  BY <1>4, <1>5

LEMMA ContinuesCause ==
  ASSUME TypeOK, Progress, CauseInv, NEW s \in Searches, Leaves(s),
         NEW how \in Lookup \ {"none"}, NEW b, Continues(s, how, b),
         \/ /\ b \in {breaker, AfterSuccess(breaker), AfterAllows(breaker, now)}
            /\ how = "fault" => leader'[s] # s
            /\ how = "refused" => ~Allows(breaker, now) \/ \E t \in Searches : lookup[t] = "refused"
         \/ /\ b \in {AfterFailure(breaker, now), AfterFailure(AfterAllows(breaker, now), now)}
            /\ how = "fault" /\ leader'[s] = s
  PROVE  CauseInv'
<1>1. /\ lookup[s] = "none" /\ outcome[s] = "none" /\ now \in Nat
      /\ lookup' = [lookup EXCEPT ![s] = how]
  BY DEF TypeOK, Progress, Leaves, Continues
<1>2. PICK o \in AtOnce, a \in Searches \cup {NoSearch},
           p \in {"asking", "awaiting", "answered", "failed"} : Turns(s, how, b, o, a, p)
  BY DEF Continues
<1> DEFINE paid == Cardinality(FaultyLookups') + Cardinality(FaultyAnswers)
<1>3. /\ Cardinality(FaultyLookups') \in Nat
      /\ paid \in Nat /\ paid >= Faults /\ Faults \in Nat /\ Paid(b, paid)
  <2>1. Paid(breaker, Faults)
    BY DEF CauseInv
  <2>2. /\ Cardinality(FaultyLookups') \in Nat
        /\ Cardinality(FaultyLookups') >= Cardinality(FaultyLookups)
        /\ Paid(b, paid)
    BY <1>1, <2>1, LookupsPaid
  <2>3. QED
    BY <2>2, FaultsFinite DEF Faults
<1> HIDE DEF paid
<1>4. /\ Paid(breaker', Faults') /\ Faults' \in Nat /\ Faults' >= paid
      /\ o = "refused" => paid >= Threshold
  <2>1. /\ outcome' = [outcome EXCEPT ![s] = o]
        /\ asker' \in [Searches -> Searches \cup {NoSearch}]
        /\ \A t \in Searches \ {s} : asker'[t] = asker[t]
        /\ asker'[s] = a
    BY <1>2 DEF Turns, TypeOK
  <2>2. /\ o = "fault" /\ a = s => Cardinality(FaultyAnswers') = Cardinality(FaultyAnswers) + 1
        /\ ~(o = "fault" /\ a = s) => FaultyAnswers' = FaultyAnswers
    BY <1>1, <2>1, AnswersPaid
  <2>3. Paid(AfterAllows(b, now), paid) /\ (~Allows(b, now) => paid >= Threshold)
    BY <1>1, <1>3, Payment
  <2>4. CASE o = "fault"
    <3>1. Cardinality(FaultyAnswers') = Cardinality(FaultyAnswers) + 1
      BY <1>2, <2>2, <2>4 DEF Turns
    <3>2. Cardinality(FaultyAnswers) \in Nat
      BY FaultsFinite
    <3>3. Faults' = paid + 1
      BY <1>3, <3>1, <3>2 DEF Faults, paid
    <3>4. Paid(AfterFailure(AfterAllows(b, now), now), paid + 1)
      BY <1>1, <1>3, <2>3, Payment
    <3>5. Paid(breaker', paid + 1)
      BY <1>2, <2>4, <3>4 DEF Turns
    <3>6. QED
      BY <1>3, <2>4, <3>3, <3>5
  <2>5. CASE o # "fault"
    <3>1. Faults' = paid
      BY <2>2, <2>5 DEF Faults, paid
    <3>2. Paid(breaker', paid)
      BY <1>2, <1>3, <2>3, <2>5 DEF Turns
    <3>3. QED
      BY <1>2, <1>3, <2>3, <3>1, <3>2 DEF Turns
  <2>6. QED
    BY <2>4, <2>5
<1>5. how = "refused" => Faults >= Threshold
  <2>1. Paid(breaker, Faults) /\ (Refusing => Faults >= Threshold)
    BY DEF CauseInv
  <2>2. ~Allows(breaker, now) => Faults >= Threshold
    BY <1>1, <1>3, <2>1, Payment
  <2>3. QED
    BY <2>1, <2>2 DEF Refusing
<1>6. Refusing' => Faults' >= Threshold
  <2>1. /\ \A t \in Searches \ {s} : lookup'[t] = lookup[t] /\ outcome'[t] = outcome[t]
        /\ lookup'[s] = how /\ outcome'[s] = o
    BY <1>1, <1>2 DEF TypeOK, Turns
  <2>2. Refusing' => Refusing \/ how = "refused" \/ o = "refused"
    BY <2>1 DEF Refusing
  <2>3. Threshold \in Nat /\ (Refusing => Faults >= Threshold)
    BY ThresholdType DEF CauseInv
  <2>4. QED
    BY <1>3, <1>4, <1>5, <2>2, <2>3
<1>7. FailedForCause'
  <2>1. \A t \in Searches \ {s} :
          lookup'[t] = lookup[t] /\ outcome'[t] = outcome[t] /\ phase'[t] = phase[t]
    BY <1>1, <1>2 DEF TypeOK, Turns
  <2>2. phase'[s] = p /\ outcome'[s] = o /\ lookup'[s] = how
    BY <1>1, <1>2 DEF TypeOK, Turns
  <2>3. p = "failed" => o \notin {"none", "results"} \/ how \in Defect
    BY <1>2 DEF Turns, Lookup
  <2>4. QED
    BY <2>1, <2>2, <2>3 DEF CauseInv, FailedForCause
<1>8. QED
  BY <1>4, <1>6, <1>7 DEF CauseInv

\* The call for results ends, and meets a fault or does not.
LEMMA ConcludesCause ==
  ASSUME TypeOK, Progress, CauseInv, NEW s \in Searches, NEW o \in Outcome \ {"none"}, Finishes(s, o)
  PROVE  CauseInv'
<1> USE DEF TypeOK, Progress
<1>1. outcome[s] = "none"
  BY DEF Finishes
<1>2. FaultyLookups' = FaultyLookups
  BY DEF FaultyLookups, Finishes, Concludes
<1>3. Paid(breaker, Faults) /\ Faults \in Nat /\ now \in Nat /\ Threshold \in Nat
  BY FaultsFinite, ThresholdType DEF CauseInv
<1>4. /\ o = "fault" /\ asker[s] = s => Cardinality(FaultyAnswers') = Cardinality(FaultyAnswers) + 1
      /\ ~(o = "fault" /\ asker[s] = s) => FaultyAnswers' = FaultyAnswers
  <2>1. outcome' = [outcome EXCEPT ![s] = o] /\ asker' = asker
    BY DEF Finishes, Concludes
  <2>2. QED
    BY <1>1, <2>1, AnswersPaid
<1>5. Paid(breaker', Faults') /\ Faults' \in Nat /\ Faults' >= Faults
  <2>1. CASE breaker' \in {breaker, AfterSuccess(breaker)} /\ (o = "fault" => asker[s] # s)
    <3>1. Faults' = Faults
      BY <1>2, <1>4, <2>1 DEF Faults
    <3>2. QED
      BY <1>3, <2>1, <3>1, Payment
  <2>2. CASE o = "fault" /\ asker[s] = s /\ breaker' = AfterFailure(breaker, now)
    <3>1. Faults' = Faults + 1
      BY <1>2, <1>4, <2>2, FaultsFinite DEF Faults
    <3>2. Paid(AfterFailure(breaker, now), Faults + 1)
      BY <1>3, Payment
    <3>3. QED
      BY <1>3, <2>2, <3>1, <3>2
  <2>3. QED
    BY <2>1, <2>2 DEF Finishes
<1>6. Refusing' => Refusing
  <2>1. o = "refused" => \E t \in Searches : outcome[t] = "refused"
    BY DEF Finishes
  <2>2. UNCHANGED lookup /\ outcome' = [outcome EXCEPT ![s] = o]
    BY DEF Finishes, Concludes
  <2>3. QED
    BY <2>1, <2>2 DEF Refusing
<1>7. FailedForCause'
  BY DEF CauseInv, FailedForCause, Finishes, Concludes, Phase
<1>8. QED
  BY <1>3, <1>5, <1>6, <1>7 DEF CauseInv

\* Nothing ends, and nobody is told anything.
LEMMA QuietCause ==
  ASSUME TypeOK, Progress, CauseInv, UNCHANGED <<lookup, asker, outcome>>,
         breaker' = breaker \/ breaker' = AfterAllows(breaker, now),
         \A s \in Searches : leader'[s] = leader[s] \/ phase[s] = "new",
         \A s \in Searches : phase'[s] = "failed" => phase[s] = "failed"
  PROVE  CauseInv'
<1>1. FaultyLookups' = FaultyLookups /\ FaultyAnswers' = FaultyAnswers
  BY DEF FaultyLookups, FaultyAnswers, Progress
<1>2. Faults' = Faults /\ Faults \in Nat /\ now \in Nat
  BY <1>1, FaultsFinite DEF Faults, TypeOK
<1>3. Paid(breaker', Faults')
  BY <1>2, Payment DEF CauseInv
<1>4. QED
  BY <1>2, <1>3 DEF CauseInv, Refusing, FailedForCause
\* Refusals are paid for by faulty calls, each counted once however many searches
\* followed it; and no search fails because its genre lookup did.
THEOREM FailuresHaveCause == Spec => []SearchesFailForCause
<1>1. Init => CauseInv
  <2> SUFFICES ASSUME Init PROVE CauseInv
    OBVIOUS
  <2>1. FaultyLookups = {} /\ FaultyAnswers = {}
    BY DEF Init, FaultyLookups, FaultyAnswers
  <2>2. Faults = 0
    BY <2>1, FS_EmptySet DEF Faults
  <2>3. Paid(breaker, Faults)
    BY <2>2, InitialBreakerOK DEF Init, InitialBreaker, Paid
  <2>4. QED
    BY <2>3 DEF Init, CauseInv, Refusing, FailedForCause
<1>2. TypeOK /\ Progress /\ CauseInv /\ [Next]_vars => CauseInv'
  <2> SUFFICES ASSUME TypeOK, Progress, CauseInv, [Next]_vars PROVE CauseInv'
    OBVIOUS
  <2>1. ASSUME NEW s \in Searches, Step(s) PROVE CauseInv'
    <3> USE <2>1
    <3>1. CASE Enters(s)
      <4>1. /\ UNCHANGED <<lookup, asker, outcome>>
            /\ breaker' = breaker \/ breaker' = AfterAllows(breaker, now)
            /\ \A t \in Searches : leader'[t] = leader[t] \/ phase[t] = "new"
            /\ \A t \in Searches : phase'[t] = "failed" => phase[t] = "failed"
        BY <3>1 DEF Enters, TypeOK
      <4>2. QED
        BY <4>1, QuietCause
    <3>2. ASSUME Leaves(s), NEW how \in Lookup \ {"none"}, Calm(s, how) PROVE CauseInv'
      BY <3>2, ContinuesCause DEF Calm
    <3>3. ASSUME Leaves(s), NEW how \in Lookup \ {"none"}, Faulty(s, how) PROVE CauseInv'
      BY <3>3, ContinuesCause DEF Faulty
    <3>4. ASSUME NEW o \in Outcome \ {"none"}, Finishes(s, o) PROVE CauseInv'
      BY <3>4, ConcludesCause
    <3>5. QED
      BY StepKinds, <3>1, <3>2, <3>3, <3>4
  <2>2. CASE Others \/ UNCHANGED vars
    <3>1. UNCHANGED <<lookup, asker, outcome, breaker, leader>>
      BY <2>2 DEF Others, Submit, Forget, Tick, vars
    <3>2. \A s \in Searches : phase'[s] = "failed" => phase[s] = "failed"
      BY <2>2 DEF Others, Submit, MoveTo, Forget, Tick, vars, TypeOK
    <3>3. QED
      BY <3>1, <3>2, QuietCause
  <2>3. QED
    BY <2>1, <2>2 DEF Next, Others
<1>3. CauseInv => SearchesFailForCause
  BY DEF CauseInv, SearchesFailForCause, Refusing, RefusalsNeedFaults, Faults, FailedForCause
<1>4. QED
  BY <1>1, <1>2, <1>3, TypeCorrect, PTL DEF Spec

-----------------------------------------------------------------------------
(***************************************************************************)
(* Narrowing.                                                              *)
(***************************************************************************)

\* The recursion of Among.
LEMMA AmongUnfolds ==
  ASSUME NEW S, NEW movies \in Seq(S), NEW fitting
  PROVE  \E kept :
           /\ Among(movies, fitting) = kept[Len(movies)]
           /\ kept[0] = <<>>
           /\ \A n \in 1..Len(movies) :
                kept[n] = IF movies[n] \in fitting THEN Append(kept[n - 1], movies[n])
                                                   ELSE kept[n - 1]
<1> DEFINE N == Len(movies)
    Follows(f) == f = [n \in 0..N |->
                         IF n = 0 THEN <<>>
                         ELSE IF movies[n] \in fitting THEN Append(f[n - 1], movies[n])
                         ELSE f[n - 1]]
    kept == CHOOSE f : Follows(f)
    Steps == {t \in Seq(S) \X (1..N) \X Seq(S) :
               t[3] = IF movies[t[2]] \in fitting THEN Append(t[1], movies[t[2]]) ELSE t[1]}
<1>1. N \in Nat /\ \A n \in 1..N : movies[n] \in S
  BY LenProperties, ElementOfSeq
<1>2. \A s \in Seq(S), n \in 1..N : \E t \in Seq(S) : <<s, n, t>> \in Steps
  <2>1. ASSUME NEW s \in Seq(S), NEW n \in 1..N PROVE \E t \in Seq(S) : <<s, n, t>> \in Steps
    <3>1. Append(s, movies[n]) \in Seq(S)
      BY <1>1, AppendProperties
    <3>2. PICK t \in Seq(S) : t = IF movies[n] \in fitting THEN Append(s, movies[n]) ELSE s
      BY <3>1
    <3>3. QED
      BY <3>2
  <2>2. QED
    BY <2>1
<1> HIDE DEF N
<1>3. PICK f \in [0..N -> Seq(S)] :
        f[0] \in {<<>>} /\ \A n \in 1..N : <<f[n - 1], n, f[n]>> \in Steps
  <2> HIDE DEF Steps
  <2>1. <<>> \in Seq(S)
    OBVIOUS
  <2>2. QED
    BY <1>1, <1>2, <2>1, RecursionExists, Zenon
<1>4. Follows(f)
  <2>1. ASSUME NEW n \in 1..N
        PROVE  f[n] = IF movies[n] \in fitting THEN Append(f[n - 1], movies[n]) ELSE f[n - 1]
    <3> HIDE DEF Steps
    <3>1. <<f[n - 1], n, f[n]>> \in Steps
      BY <1>3
    <3> USE DEF Steps
    <3>2. QED
      BY <3>1, Zenon
  <2>2. ASSUME NEW n \in 0..N
        PROVE  f[n] = IF n = 0 THEN <<>>
                      ELSE IF movies[n] \in fitting THEN Append(f[n - 1], movies[n])
                      ELSE f[n - 1]
    <3> HIDE DEF Steps
    <3>1. CASE n = 0
      BY <1>3, <3>1
    <3>2. CASE n \in 1..N
      <4>1. n # 0
        BY <3>2
      <4>2. QED
        BY <2>1, <3>2, <4>1, Zenon
    <3>3. QED
      BY <1>1, <3>1, <3>2
  <2>3. f = [n \in 0..N |-> f[n]]
    OBVIOUS
  <2> HIDE DEF Steps
  <2>4. QED
    BY <2>2, <2>3
<1>5. Follows(kept)
  BY <1>4
<1>6. Among(movies, fitting) = kept[N]
  BY DEF Among, N
<1> HIDE DEF kept, Steps
<1>7. kept[0] = <<>>
  BY <1>1, <1>5
<1>8. \A n \in 1..N : kept[n] = IF movies[n] \in fitting THEN Append(kept[n - 1], movies[n])
                                                        ELSE kept[n - 1]
  <2> SUFFICES ASSUME NEW n \in 1..N
               PROVE  kept[n] = IF movies[n] \in fitting THEN Append(kept[n - 1], movies[n])
                                                         ELSE kept[n - 1]
    OBVIOUS
  <2>1. n \in 0..N /\ n # 0
    BY <1>1
  <2>2. QED
    BY <1>5, <2>1, Zenon
<1>9. QED
  BY <1>6, <1>7, <1>8 DEF N

\* Every movie kept fits and was there, and every one that fits is kept.
LEMMA AmongOK ==
  ASSUME NEW S, NEW movies \in Seq(S), NEW fitting
  PROVE  /\ Among(movies, fitting) \in Seq(S)
         /\ \A k \in 1..Len(Among(movies, fitting)) :
              /\ Among(movies, fitting)[k] \in fitting
              /\ \E i \in 1..Len(movies) : Among(movies, fitting)[k] = movies[i]
         /\ \A i \in 1..Len(movies) : movies[i] \in fitting =>
              \E k \in 1..Len(Among(movies, fitting)) : Among(movies, fitting)[k] = movies[i]
<1> DEFINE N == Len(movies)
<1>1. N \in Nat /\ \A n \in 1..N : movies[n] \in S
  BY LenProperties, ElementOfSeq
<1>2. PICK kept : /\ Among(movies, fitting) = kept[N]
                  /\ kept[0] = <<>>
                  /\ \A n \in 1..N :
                       kept[n] = IF movies[n] \in fitting THEN Append(kept[n - 1], movies[n])
                                                          ELSE kept[n - 1]
  BY AmongUnfolds
<1> HIDE DEF N
<1> DEFINE Right(n) ==
      /\ kept[n] \in Seq(S)
      /\ \A k \in 1..Len(kept[n]) : kept[n][k] \in fitting /\ \E i \in 1..n : kept[n][k] = movies[i]
      /\ \A i \in 1..n : movies[i] \in fitting => \E k \in 1..Len(kept[n]) : kept[n][k] = movies[i]
    Good == {n \in 0..N : Right(n)}
<1>3. Right(0)
  <2>1. kept[0] = <<>> /\ <<>> \in Seq(S) /\ Len(<<>>) = 0
    BY <1>2
  <2>2. QED
    BY <2>1
<1>4. ASSUME NEW n \in 1..N, Right(n - 1) PROVE Right(n)
  <2> DEFINE old == kept[n - 1]
  <2>0. /\ old \in Seq(S) /\ Len(old) \in Nat /\ movies[n] \in S
        /\ n \in Nat /\ \A i \in 1..n : i \in 1..(n - 1) \/ i = n
        /\ \A i \in 1..(n - 1) : i \in 1..n
    BY <1>1, <1>4, LenProperties
  <2>1. CASE movies[n] \notin fitting
    <3>1. kept[n] = old
      BY <1>2, <2>1
    <3>2. QED
      BY <1>4, <2>0, <2>1, <3>1
  <2>2. CASE movies[n] \in fitting
    <3> DEFINE more == Append(old, movies[n])
    <3>1. kept[n] = more
      BY <1>2, <2>2
    <3>2. /\ more \in Seq(S) /\ Len(more) = Len(old) + 1
          /\ \A k \in 1..Len(old) : more[k] = old[k]
          /\ more[Len(old) + 1] = movies[n]
      BY <2>0, AppendProperties
    <3> HIDE DEF more
    <3>3. \A k \in 1..Len(more) : k \in 1..Len(old) \/ k = Len(old) + 1
      BY <2>0, <3>2
    <3>4. ASSUME NEW k \in 1..Len(more)
          PROVE  more[k] \in fitting /\ \E i \in 1..n : more[k] = movies[i]
      <4>1. CASE k \in 1..Len(old)
        <5>1. more[k] = old[k]
          BY <3>2, <4>1
        <5>2. old[k] \in fitting /\ \E i \in 1..(n - 1) : old[k] = movies[i]
          BY <1>4, <4>1
        <5>3. QED
          BY <2>0, <5>1, <5>2
      <4>2. CASE k = Len(old) + 1
        BY <2>0, <2>2, <3>2, <4>2
      <4>3. QED
        BY <3>3, <4>1, <4>2
    <3>5. ASSUME NEW i \in 1..n, movies[i] \in fitting
          PROVE  \E k \in 1..Len(more) : more[k] = movies[i]
      <4>1. CASE i \in 1..(n - 1)
        <5>1. PICK k \in 1..Len(old) : old[k] = movies[i]
          BY <1>4, <3>5, <4>1
        <5>2. more[k] = movies[i]
          BY <3>2, <5>1
        <5>3. k \in 1..Len(more)
          BY <2>0, <3>2, <5>1
        <5>4. QED
          BY <5>2, <5>3
      <4>2. CASE i = n
        BY <2>0, <3>2, <4>2
      <4>3. QED
        BY <2>0, <4>1, <4>2
    <3>6. QED
      BY <3>1, <3>2, <3>4, <3>5
  <2>3. QED
    BY <2>1, <2>2
<1>5. Right(N)
  <2> HIDE DEF Right
  <2>1. 0 \in Good /\ \A n \in 1..N : n - 1 \in Good => n \in Good
    BY <1>1, <1>3, <1>4
  <2> HIDE DEF Good
  <2>2. 0..N \subseteq Good
    BY <1>1, <2>1, Induction
  <2>3. N \in Good
    BY <1>1, <2>2
  <2>4. QED
    BY <2>3 DEF Good
<1>6. QED
  BY <1>2, <1>5 DEF N

\* What is preferred is part of what there was: some of what fits, if anything does.
LEMMA PreferOK ==
  ASSUME NEW S, NEW movies \in Seq(S), NEW fitting
  PROVE  /\ Prefer(movies, fitting) \in Seq(S)
         /\ movies # <<>> => Prefer(movies, fitting) # <<>>
         /\ \A k \in 1..Len(Prefer(movies, fitting)) :
              \E i \in 1..Len(movies) : Prefer(movies, fitting)[k] = movies[i]
         /\ \/ Prefer(movies, fitting) = movies /\ \A i \in 1..Len(movies) : movies[i] \notin fitting
            \/ /\ \A k \in 1..Len(Prefer(movies, fitting)) : Prefer(movies, fitting)[k] \in fitting
               /\ \A i \in 1..Len(movies) : movies[i] \in fitting =>
                    \E k \in 1..Len(Prefer(movies, fitting)) : Prefer(movies, fitting)[k] = movies[i]
<1> DEFINE some == Among(movies, fitting)
<1>1. /\ some \in Seq(S)
      /\ \A k \in 1..Len(some) : some[k] \in fitting /\ \E i \in 1..Len(movies) : some[k] = movies[i]
      /\ \A i \in 1..Len(movies) : movies[i] \in fitting => \E k \in 1..Len(some) : some[k] = movies[i]
  BY AmongOK
<1>2. Prefer(movies, fitting) = IF some = <<>> THEN movies ELSE some
  BY DEF Prefer
<1> HIDE DEF some
<1>3. CASE some = <<>>
  <2>1. \A k \in 1..Len(some) : FALSE
    BY <1>3
  <2>2. QED
    BY <1>1, <1>2, <1>3, <2>1
<1>4. CASE some # <<>>
  BY <1>1, <1>2, <1>4
<1>5. QED
  BY <1>3, <1>4

\* Of what narrowing leaves, nothing fits less than anything that was there.
LEMMA NarrowOK ==
  ASSUME NEW movies \in Seq(Movie), NEW year
  PROVE  /\ Narrow(movies, year) \in Seq(Movie)
         /\ movies # <<>> => Narrow(movies, year) # <<>>
         /\ \A i \in 1..Len(movies), k \in 1..Len(Narrow(movies, year)) :
              ~FitsLess(Narrow(movies, year)[k], movies[i], year)
<1> DEFINE first == Prefer(movies, Titled)
           second == Prefer(first, Dated)
<1>1. /\ first \in Seq(Movie)
      /\ movies # <<>> => first # <<>>
      /\ \A k \in 1..Len(first) : \E i \in 1..Len(movies) : first[k] = movies[i]
      /\ \/ first = movies /\ \A i \in 1..Len(movies) : movies[i] \notin Titled
         \/ /\ \A k \in 1..Len(first) : first[k] \in Titled
            /\ \A i \in 1..Len(movies) : movies[i] \in Titled =>
                 \E k \in 1..Len(first) : first[k] = movies[i]
  BY PreferOK
<1> HIDE DEF first
<1>2. /\ second \in Seq(Movie)
      /\ first # <<>> => second # <<>>
      /\ \A k \in 1..Len(second) : \E i \in 1..Len(first) : second[k] = first[i]
      /\ \/ second = first /\ \A i \in 1..Len(first) : first[i] \notin Dated
         \/ /\ \A k \in 1..Len(second) : second[k] \in Dated
            /\ \A i \in 1..Len(first) : first[i] \in Dated =>
                 \E k \in 1..Len(second) : second[k] = first[i]
  <2>1. first \in Seq(Movie)
    BY <1>1
  <2>2. QED
    BY <2>1, PreferOK
<1>3. Narrow(movies, year) = IF year = NoYear THEN first ELSE second
  BY DEF Narrow, first
<1> HIDE DEF second
<1>4. /\ \A i \in 1..Len(movies) : movies[i] \in Movie
      /\ \A i \in 1..Len(first) : first[i] \in Movie
      /\ \A i \in 1..Len(second) : second[i] \in Movie
  BY <1>1, <1>2, ElementOfSeq
<1>5. \A m \in Movie : (m \in Titled <=> m.titled) /\ (m \in Dated <=> m.dated)
  BY DEF Titled, Dated
\* A movie of the first list has matched the title, or none has.
<1>6. ASSUME NEW i \in 1..Len(movies), NEW k \in 1..Len(first)
      PROVE  /\ movies[i].titled => first[k].titled
             /\ movies[i].titled = first[k].titled => \E j \in 1..Len(first) : first[j] = movies[i]
  <2>1. CASE first = movies /\ \A j \in 1..Len(movies) : movies[j] \notin Titled
    BY <1>4, <1>5, <2>1
  <2>2. CASE /\ \A j \in 1..Len(first) : first[j] \in Titled
             /\ \A j \in 1..Len(movies) : movies[j] \in Titled =>
                  \E l \in 1..Len(first) : first[l] = movies[j]
    <3>1. first[k].titled
      BY <1>4, <1>5, <2>2
    <3>2. movies[i].titled => \E j \in 1..Len(first) : first[j] = movies[i]
      BY <1>4, <1>5, <2>2
    <3>3. QED
      BY <3>1, <3>2
  <2>3. QED
    BY <1>1, <2>1, <2>2
<1>7. ASSUME NEW i \in 1..Len(movies), NEW k \in 1..Len(Narrow(movies, year)),
             FitsLess(Narrow(movies, year)[k], movies[i], year)
      PROVE  FALSE
  <2>1. CASE year = NoYear
    <3>1. Narrow(movies, year) = first
      BY <1>3, <2>1
    <3>2. QED
      BY <1>6, <1>7, <2>1, <3>1 DEF FitsLess
  <2>2. CASE year # NoYear
    <3>1. Narrow(movies, year) = second
      BY <1>3, <2>2
    <3>2. PICK l \in 1..Len(first) : second[k] = first[l]
      BY <1>2, <1>7, <3>1
    <3>3. ~(movies[i].titled /\ ~second[k].titled)
      BY <1>6, <3>2
    <3>4. movies[i].titled = second[k].titled /\ movies[i].dated /\ ~second[k].dated
      BY <1>7, <3>1, <3>3 DEF FitsLess
    <3>5. PICK j \in 1..Len(first) : first[j] = movies[i]
      BY <1>6, <3>2, <3>4
    <3>6. first[j] \in Dated
      BY <1>4, <1>5, <3>4, <3>5
    <3>7. second[k] \in Dated
      BY <1>2, <1>7, <3>1, <3>6
    <3>8. QED
      BY <1>4, <1>5, <1>7, <3>1, <3>4, <3>7
  <2>3. QED
    BY <2>1, <2>2
<1>8. QED
  BY <1>1, <1>2, <1>3, <1>7

\* A search that found something shows something, and nothing that fits the prompt less
\* than another movie that was found, whatever the limit and the order of the results.
THEOREM BestIsShown == Spec => []NarrowingKeepsTheBest
<1>1. TypeOK => NarrowingKeepsTheBest
  <2> SUFFICES ASSUME TypeOK, NEW s \in Searches, ~FilterOnly(Parsed(s))
               PROVE  /\ Shown(s) = <<>> => found[s] = <<>>
                      /\ \A i \in DOMAIN found[s], k \in DOMAIN Shown(s) :
                           ~FitsLess(Shown(s)[k], found[s][i], Parsed(s).year)
    BY DEF NarrowingKeepsTheBest
  <2> DEFINE year == Parsed(s).year
             movies == Narrow(found[s], year)
             size == IF Len(movies) < ResultLimit THEN Len(movies) ELSE ResultLimit
  <2>1. found[s] \in Seq(Movie)
    BY DEF TypeOK
  <2>2. Shown(s) = SubSeq(movies, 1, size)
    BY DEF Shown
  <2> HIDE DEF year
  <2>3. /\ movies \in Seq(Movie)
        /\ found[s] # <<>> => movies # <<>>
        /\ \A i \in 1..Len(found[s]), k \in 1..Len(movies) : ~FitsLess(movies[k], found[s][i], year)
    BY <2>1, NarrowOK
  <2> HIDE DEF movies
  <2>4. /\ Len(movies) \in Nat /\ size \in 0..Len(movies)
        /\ movies # <<>> => size > 0
    BY <2>3, SearchAssumption, LenProperties, EmptySeq
  <2> HIDE DEF size
  <2>5. /\ Len(SubSeq(movies, 1, size)) = size
        /\ \A k \in 1..size : SubSeq(movies, 1, size)[k] = movies[k]
    <3>1. \A i \in 1..size : movies[i] \in Movie
      BY <2>3, <2>4, ElementOfSeq
    <3>2. /\ Len(SubSeq(movies, 1, size)) = IF 1 <= size THEN size - 1 + 1 ELSE 0
          /\ \A i \in 1..(size - 1 + 1) : SubSeq(movies, 1, size)[i] = movies[1 + i - 1]
      BY <2>4, <3>1, SubSeqProperties
    <3>3. QED
      BY <2>4, <3>2
  <2>6. Shown(s) = <<>> => found[s] = <<>>
    BY <2>2, <2>3, <2>4, <2>5, EmptySeq
  <2>7. DOMAIN found[s] = 1..Len(found[s]) /\ DOMAIN Shown(s) = 1..size
    BY <2>1, <2>2, <2>3, <2>4, <2>5, SubSeqProperties
  <2>8. ASSUME NEW i \in DOMAIN found[s], NEW k \in DOMAIN Shown(s)
        PROVE  ~FitsLess(Shown(s)[k], found[s][i], year)
    <3>1. i \in 1..Len(found[s]) /\ k \in 1..size /\ k \in 1..Len(movies)
      BY <2>4, <2>7, <2>8
    <3>2. Shown(s)[k] = movies[k]
      BY <2>2, <2>5, <3>1
    <3>3. QED
      BY <2>3, <3>1, <3>2
  <2>9. QED
    BY <2>6, <2>8 DEF year
<1>2. QED
  BY <1>1, TypeCorrect, PTL

-----------------------------------------------------------------------------
(***************************************************************************)
(* The parser: what its recursions compute, piece by piece.                *)
(***************************************************************************)

\* A name occurs where all its pieces stand in their order.
LEMMA Occurs ==
  ASSUME NEW T, NEW text \in Seq(T), NEW U, NEW name \in Seq(U), NEW i \in 1..Len(text)
  PROVE  OccursAt(text, name, i) <=>
           /\ i + Len(name) - 1 <= Len(text)
           /\ \A p \in 1..Len(name) : text[i + p - 1] = name[p]
<1> DEFINE L == Len(name)
           part == SubSeq(text, i, i + L - 1)
<1>1. L \in Nat /\ Len(text) \in Nat /\ i \in Nat
  BY LenProperties
<1>2. ASSUME i + L - 1 <= Len(text)
      PROVE  (part = name) <=> \A p \in 1..L : text[i + p - 1] = name[p]
  <2>1. \A j \in i..(i + L - 1) : text[j] \in T
    BY <1>1, <1>2, ElementOfSeq
  <2>2. /\ part \in Seq(T)
        /\ Len(part) = L
        /\ \A p \in 1..L : part[p] = text[i + p - 1]
    BY <1>1, <2>1, SubSeqProperties
  <2> HIDE DEF part
  <2>3. part \in Seq(T \cup U) /\ name \in Seq(T \cup U)
    BY <2>2, SeqMonotonic
  <2>4. (\A p \in 1..L : part[p] = name[p]) => part = name
    BY <2>2, <2>3, SeqEqual
  <2>5. QED
    BY <2>2, <2>4
<1>3. QED
  BY <1>2 DEF OccursAt

\* Two occurrences of a name do not overlap.
LEMMA NoOverlap ==
  ASSUME NEW T, NEW text \in Seq(T), NEW name, Nameable(name),
         NEW i \in 1..Len(text), NEW j \in 1..Len(text), i < j,
         OccursAt(text, name, i), OccursAt(text, name, j)
  PROVE  i + Len(name) <= j
<1> DEFINE U == Range(name)
           L == Len(name)
<1>1. name \in Seq(U) /\ L \in Nat /\ i \in Nat /\ j \in Nat
  BY LenProperties DEF Nameable
<1> HIDE DEF U
<1>2. SUFFICES ASSUME j < i + L PROVE FALSE
  BY <1>1
<1> DEFINE d == j - i
<1>3. d \in 1..(L - 1)
  BY <1>1, <1>2
<1>4. /\ \A p \in 1..L : text[i + p - 1] = name[p]
      /\ \A p \in 1..L : text[j + p - 1] = name[p]
  BY <1>1, Occurs
<1>5. ASSUME NEW p \in 1..(L - d) PROVE name[p] = name[d + p]
  <2>1. p \in 1..L /\ d + p \in 1..L /\ i + (d + p) - 1 = j + p - 1
    BY <1>1, <1>3
  <2>2. text[i + (d + p) - 1] = name[d + p] /\ text[j + p - 1] = name[p]
    BY <1>4, <2>1
  <2>3. QED
    BY <2>1, <2>2
<1> HIDE DEF d
<1> DEFINE front == SubSeq(name, 1, L - d)
           back == SubSeq(name, d + 1, L)
<1>6. /\ front \in Seq(U) /\ Len(front) = L - d
      /\ \A p \in 1..(L - d) : front[p] = name[p]
  <2>1. \A p \in 1..(L - d) : name[p] \in U
    BY <1>1, <1>3, ElementOfSeq
  <2>2. QED
    BY <1>1, <1>3, <2>1, SubSeqProperties
<1>7. /\ back \in Seq(U) /\ Len(back) = L - d
      /\ \A p \in 1..(L - d) : back[p] = name[d + p]
  <2>1. \A p \in (d + 1)..L : name[p] \in U
    BY <1>1, <1>3, ElementOfSeq
  <2>2. QED
    BY <1>1, <1>3, <2>1, SubSeqProperties
<1> HIDE DEF front, back
<1>8. front = back
  BY <1>5, <1>6, <1>7, SeqEqual
<1>9. QED
  BY <1>3, <1>8 DEF Nameable, front, back

\* The recursion of WithoutGenre.
Replaces(text, name, left) ==
    /\ left \in [0..Len(text) -> Nat]
    /\ WithoutGenre(text, name) =
         [i \in DOMAIN text |-> IF left[i] > 0 THEN Gap ELSE text[i]]
    /\ left[0] = 0
    /\ \A i \in 1..Len(text) :
         left[i] = IF left[i - 1] > 1 THEN left[i - 1] - 1
                   ELSE IF OccursAt(text, name, i) THEN Len(name)
                   ELSE 0

LEMMA ReplaceUnfolds ==
  ASSUME NEW T, NEW text \in Seq(T), NEW U, NEW name \in Seq(U), name # NoGenre
  PROVE  \E left : Replaces(text, name, left)
<1> DEFINE N == Len(text)
    L == Len(name)
    Follows(f) == f = [i \in 0..N |->
                         IF i = 0 THEN 0
                         ELSE IF f[i - 1] > 1 THEN f[i - 1] - 1
                         ELSE IF OccursAt(text, name, i) THEN L
                         ELSE 0]
    left == CHOOSE f : Follows(f)
    Steps == {t \in Nat \X (1..N) \X Nat :
               t[3] = IF t[1] > 1 THEN t[1] - 1
                      ELSE IF OccursAt(text, name, t[2]) THEN L
                      ELSE 0}
<1>0. WithoutGenre(text, name) = [i \in DOMAIN text |-> IF left[i] > 0 THEN Gap ELSE text[i]]
  BY DEF WithoutGenre
<1>1. N \in Nat /\ L \in Nat
  BY LenProperties
<1>2. \A m \in Nat, i \in 1..N : \E n \in Nat : <<m, i, n>> \in Steps
  <2>1. ASSUME NEW m \in Nat, NEW i \in 1..N PROVE \E n \in Nat : <<m, i, n>> \in Steps
    <3>1. PICK n \in Nat : n = IF m > 1 THEN m - 1 ELSE IF OccursAt(text, name, i) THEN L ELSE 0
      BY <1>1
    <3>2. QED
      BY <3>1
  <2>2. QED
    BY <2>1
<1> HIDE DEF N, L
<1>3. PICK f \in [0..N -> Nat] : f[0] \in {0} /\ \A i \in 1..N : <<f[i - 1], i, f[i]>> \in Steps
  <2> HIDE DEF Steps
  <2>1. \E m \in Nat : m \in {0}
    OBVIOUS
  <2>2. QED
    BY <1>1, <1>2, <2>1, RecursionExists, Zenon
<1>4. Follows(f)
  <2>1. ASSUME NEW i \in 1..N
        PROVE  f[i] = IF f[i - 1] > 1 THEN f[i - 1] - 1
                      ELSE IF OccursAt(text, name, i) THEN L ELSE 0
    <3> HIDE DEF Steps
    <3>1. <<f[i - 1], i, f[i]>> \in Steps
      BY <1>3
    <3> USE DEF Steps
    <3>2. QED
      BY <3>1, Zenon
  <2>2. ASSUME NEW i \in 0..N
        PROVE  f[i] = IF i = 0 THEN 0
                      ELSE IF f[i - 1] > 1 THEN f[i - 1] - 1
                      ELSE IF OccursAt(text, name, i) THEN L ELSE 0
    <3> HIDE DEF Steps
    <3>1. CASE i = 0
      BY <1>3, <3>1
    <3>2. CASE i # 0
      <4>1. i \in 1..N
        BY <1>1, <3>2
      <4>2. QED
        BY <2>1, <3>2, <4>1, Zenon
    <3>3. QED
      BY <3>1, <3>2
  <2>3. f = [i \in 0..N |-> f[i]]
    BY <1>3
  <2> HIDE DEF Steps
  <2>4. QED
    BY <2>2, <2>3
<1>5. Follows(left)
  <2> HIDE DEF Follows
  <2>1. QED
    BY <1>4
<1> HIDE DEF left
<1> DEFINE Here(i) == IF i = 0 THEN 0
                      ELSE IF left[i - 1] > 1 THEN left[i - 1] - 1
                      ELSE IF OccursAt(text, name, i) THEN L ELSE 0
<1>6. left = [i \in 0..N |-> Here(i)]
  BY <1>5
<1>7. \A i \in 0..N : left[i] = Here(i)
  <2> HIDE DEF Here
  <2>1. QED
    BY <1>6
<1>8. left[0] = 0
  BY <1>1, <1>7
<1>9. \A i \in 1..N : left[i] = IF left[i - 1] > 1 THEN left[i - 1] - 1
                                ELSE IF OccursAt(text, name, i) THEN L ELSE 0
  BY <1>1, <1>7
<1>10. left \in [0..N -> Nat]
  <2> DEFINE Good == {i \in 0..N : left[i] \in Nat}
  <2>1. 0 \in Good
    BY <1>1, <1>8
  <2>2. ASSUME NEW i \in 1..N, i - 1 \in Good PROVE i \in Good
    <3>1. left[i - 1] \in Nat /\ i \in 0..N
      BY <1>1, <2>2
    <3>2. \/ left[i - 1] > 1 /\ left[i] = left[i - 1] - 1
          \/ left[i] = L
          \/ left[i] = 0
      BY <1>9
    <3>3. left[i] \in Nat
      BY <1>1, <3>1, <3>2
    <3>4. QED
      BY <3>1, <3>3
  <2> HIDE DEF Good
  <2>3. 0..N \subseteq Good
    BY <1>1, <2>1, <2>2, Induction
  <2>4. \A i \in 0..N : left[i] \in Nat
    BY <2>3 DEF Good
  <2>5. left = [i \in 0..N |-> left[i]]
    <3> HIDE DEF Here
    <3>1. QED
      BY <1>6, <1>7
  <2>6. QED
    BY <2>4, <2>5
<1>11. QED
  BY <1>0, <1>8, <1>9, <1>10 DEF N, L, Replaces

\* The i-th piece belongs to an occurrence of a name.
Covers(text, name, i) == \E j \in 1..i : i < j + Len(name) /\ OccursAt(text, name, j)

\* What str.replace takes out are exactly the pieces of the occurrences.
LEMMA ReplaceOK ==
  ASSUME NEW T, NEW text \in Seq(T), NEW name, Nameable(name), name # NoGenre
  PROVE  WithoutGenre(text, name) =
           [i \in 1..Len(text) |-> IF Covers(text, name, i) THEN Gap ELSE text[i]]
<1> DEFINE N == Len(text)
           L == Len(name)
           U == Range(name)
<1>1. N \in Nat /\ L \in Nat /\ name \in Seq(U) /\ DOMAIN text = 1..N
  BY LenProperties DEF Nameable
<1>2. PICK left : Replaces(text, name, left)
  <2> HIDE DEF U
  <2>1. QED
    BY <1>1, ReplaceUnfolds
<1>3. \A i, j \in 1..N : i < j /\ OccursAt(text, name, i) /\ OccursAt(text, name, j) => i + L <= j
  BY NoOverlap
<1>2a. /\ left \in [0..N -> Nat]
      /\ WithoutGenre(text, name) = [i \in 1..N |-> IF left[i] > 0 THEN Gap ELSE text[i]]
      /\ left[0] = 0
      /\ \A i \in 1..N : left[i] = IF left[i - 1] > 1 THEN left[i - 1] - 1
                                   ELSE IF OccursAt(text, name, i) THEN L
                                   ELSE 0
  BY <1>1, <1>2 DEF Replaces
<1> HIDE DEF N, L, U
<1> DEFINE Right(n) ==
             \/ left[n] = 0 /\ \A j \in 1..n : OccursAt(text, name, j) => j + L <= n
             \/ \E j \in 1..n : OccursAt(text, name, j) /\ j + L - n = left[n] /\ left[n] > 0
           Good == {n \in 0..N : Right(n)}
<1>4. Right(0)
  BY <1>2a
<1>5. ASSUME NEW n \in 1..N, Right(n - 1) PROVE Right(n)
  <2>1. n \in Nat /\ left[n] \in Nat /\ left[n - 1] \in Nat
    BY <1>1, <1>2a
  <2>2. CASE left[n - 1] > 1
    <3>1. PICK j \in 1..(n - 1) : OccursAt(text, name, j) /\ j + L - (n - 1) = left[n - 1]
      BY <1>5, <2>2
    <3>2. left[n] = left[n - 1] - 1
      BY <1>2a, <2>2
    <3>3. j \in 1..n /\ j + L - n = left[n] /\ left[n] > 0
      BY <1>1, <2>1, <2>2, <3>1, <3>2
    <3>4. QED
      BY <3>1, <3>3
  <2>3. CASE ~(left[n - 1] > 1) /\ OccursAt(text, name, n)
    <3>1. left[n] = L /\ n \in 1..n /\ n + L - n = L
      BY <1>1, <1>2a, <2>1, <2>3
    <3>2. CASE L > 0
      BY <2>3, <3>1, <3>2
    <3>3. CASE L = 0
      <4>1. \A j \in 1..n : j + L <= n
        BY <2>1, <3>3
      <4>2. QED
        BY <3>1, <3>3, <4>1
    <3>4. QED
      BY <1>1, <3>2, <3>3
  <2>4. CASE ~(left[n - 1] > 1) /\ ~OccursAt(text, name, n)
    <3>1. left[n] = 0
      BY <1>2a, <2>4
    <3>2. ASSUME NEW j \in 1..n, OccursAt(text, name, j) PROVE j + L <= n
      <4>1. j \in 1..(n - 1) /\ j \in 1..N
        BY <1>1, <2>1, <2>4, <3>2
      <4>2. CASE left[n - 1] = 0
        <5>1. j + L <= n - 1
          BY <1>5, <3>2, <4>1, <4>2
        <5>2. QED
          BY <1>1, <2>1, <4>1, <5>1
      <4>3. CASE left[n - 1] = 1
        <5>1. PICK k \in 1..(n - 1) : OccursAt(text, name, k) /\ k + L - (n - 1) = 1
          BY <1>5, <4>3
        <5>2. k \in 1..N /\ k + L = n
          BY <1>1, <2>1, <5>1
        <5>3. CASE j <= k
          BY <1>1, <2>1, <4>1, <5>2, <5>3
        <5>4. CASE k < j
          <6>1. k + L <= j
            BY <1>3, <3>2, <4>1, <5>1, <5>2, <5>4
          <6>2. QED
            BY <2>1, <4>1, <5>2, <6>1
        <5>5. QED
          BY <4>1, <5>2, <5>3, <5>4
      <4>4. QED
        BY <2>1, <2>4, <4>2, <4>3
    <3>3. QED
      BY <3>1, <3>2
  <2>5. QED
    BY <2>2, <2>3, <2>4
<1>6. \A n \in 1..N : Right(n)
  <2> HIDE DEF Right
  <2>1. 0 \in Good /\ \A n \in 1..N : n - 1 \in Good => n \in Good
    BY <1>1, <1>4, <1>5
  <2> HIDE DEF Good
  <2>2. 0..N \subseteq Good
    BY <1>1, <2>1, Induction
  <2>3. QED
    BY <1>1, <2>2 DEF Good
<1>7. ASSUME NEW n \in 1..N PROVE left[n] > 0 <=> Covers(text, name, n)
  <2>1. Right(n) /\ n \in Nat
    BY <1>1, <1>6
  <2>2. CASE left[n] = 0
    <3>1. \A j \in 1..n : OccursAt(text, name, j) => j + L <= n
      BY <2>1, <2>2
    <3>2. QED
      BY <1>1, <2>1, <2>2, <3>1 DEF Covers, L
  <2>3. CASE left[n] # 0
    <3>1. PICK j \in 1..n : OccursAt(text, name, j) /\ j + L - n = left[n] /\ left[n] > 0
      BY <2>1, <2>3
    <3>2. n < j + L
      BY <1>1, <2>1, <3>1
    <3>3. QED
      BY <3>1, <3>2 DEF Covers, L
  <2>4. QED
    BY <2>2, <2>3
<1>8. [i \in 1..N |-> IF left[i] > 0 THEN Gap ELSE text[i]] =
      [i \in 1..N |-> IF Covers(text, name, i) THEN Gap ELSE text[i]]
  BY <1>7
<1>9. QED
  BY <1>1, <1>2a, <1>8 DEF N

\* Taking out the year neither destroys an occurrence of a name nor makes one.
LEMMA YearLeavesNames ==
  ASSUME NEW T, NEW text \in Seq(T), NEW year, NEW name, Nameable(name), NEW i \in 1..Len(text)
  PROVE  OccursAt(WithoutYear(text, year), name, i) <=> OccursAt(text, name, i)
<1> DEFINE N == Len(text)
           L == Len(name)
           U == Range(name)
           V == T \cup {Gap}
           bare == WithoutYear(text, year)
           Apart == Separators \cup Openers
<1>1. N \in Nat /\ L \in Nat /\ name \in Seq(U) /\ DOMAIN text = 1..N /\ DOMAIN name = 1..L
  BY LenProperties DEF Nameable
<1>2. bare = [p \in 1..N |-> IF text[p] = year /\ YearAt(text, p) THEN Gap ELSE text[p]]
  BY <1>1 DEF WithoutYear
<1>3. bare \in Seq(V) /\ Len(bare) = N
  <2>1. \A p \in 1..N : text[p] \in V
    BY ElementOfSeq
  <2>2. bare \in [1..N -> V]
    BY <1>2, <2>1
  <2>3. QED
    BY <1>1, <2>2
<1>4. ASSUME NEW p \in 1..N
      PROVE  \/ bare[p] = text[p]
             \/ bare[p] = Gap /\ text[p] \in Years /\ (p > 1 => text[p - 1] \in Apart)
  BY <1>2 DEF YearAt
<1>5. \A p \in 1..N : text[p] \in Apart => bare[p] \in Apart
  BY <1>4, ParserAssumption
<1>6. \A q \in 1..L : name[q] \notin Years /\ (name[q] = Gap => q > 1 /\ name[q - 1] \notin Apart)
  BY <1>1 DEF Nameable
<1> HIDE DEF N, U, V, bare, Apart
<1>7. OccursAt(text, name, i) <=> /\ i + L - 1 <= N
                                  /\ \A q \in 1..L : text[i + q - 1] = name[q]
  <2>1. name \in Seq(U)
    BY <1>1
  <2>2. OccursAt(text, name, i) <=> /\ i + Len(name) - 1 <= Len(text)
                                    /\ \A q \in 1..Len(name) : text[i + q - 1] = name[q]
    BY <2>1, Occurs, SMTT(60)
  <2>3. QED
    BY <2>2 DEF N
<1>8. OccursAt(bare, name, i) <=> /\ i + L - 1 <= N
                                  /\ \A q \in 1..L : bare[i + q - 1] = name[q]
  <2>1. i \in 1..Len(bare) /\ name \in Seq(U) /\ bare \in Seq(V)
    BY <1>1, <1>3 DEF N
  <2>2. OccursAt(bare, name, i) <=> /\ i + Len(name) - 1 <= Len(bare)
                                    /\ \A q \in 1..Len(name) : bare[i + q - 1] = name[q]
    BY <2>1, Occurs
  <2>3. QED
    BY <1>3, <2>2
<1> HIDE DEF L
<1>9. SUFFICES ASSUME i + L - 1 <= N
               PROVE  (\A q \in 1..L : bare[i + q - 1] = name[q])
                      <=> (\A q \in 1..L : text[i + q - 1] = name[q])
  BY <1>7, <1>8 DEF bare
<1>10. i \in 1..N /\ i \in Nat /\ \A q \in 1..L : i + q - 1 \in 1..N
  BY <1>1, <1>9 DEF N
<1>11. ASSUME NEW q \in 1..L, text[i + q - 1] = name[q] PROVE bare[i + q - 1] = name[q]
  BY <1>4, <1>6, <1>10, <1>11
<1>12. ASSUME \A q \in 1..L : bare[i + q - 1] = name[q], NEW q \in 1..L
       PROVE  text[i + q - 1] = name[q]
  <2> DEFINE p == i + q - 1
  <2>1. p \in 1..N /\ bare[p] = name[q]
    BY <1>10, <1>12
  <2>2. ASSUME bare[p] = Gap, p > 1 => text[p - 1] \in Apart PROVE FALSE
    <3>1. q > 1 /\ name[q - 1] \notin Apart
      BY <1>6, <2>1, <2>2
    <3>2. q - 1 \in 1..L /\ i + (q - 1) - 1 = p - 1 /\ p > 1 /\ p - 1 \in 1..N
      BY <1>1, <1>10, <2>1, <3>1
    <3>3. bare[p - 1] = name[q - 1]
      BY <1>12, <3>2
    <3>4. bare[p - 1] \in Apart
      BY <1>5, <2>2, <3>2
    <3>5. QED
      BY <3>1, <3>3, <3>4
  <2>3. QED
    BY <1>4, <2>1, <2>2
<1>13. QED
  BY <1>11, <1>12

\* In `bare` everything in `used` separates words, and the rest is as in `text`.
Blanked(bare, text, used) ==
    /\ Len(bare) = Len(text)
    /\ \A i \in 1..Len(text) :
        /\ bare[i] \in Separators <=> i \in used
        /\ i \notin used => bare[i] = text[i]

\* What is taken out of a text is what stands for the filter.
LEMMA UsedUpIsBlank ==
  ASSUME NEW T, NEW text \in Seq(T), NEW parsed, Nameable(parsed.genre)
  PROVE  LET left == WithoutGenre(WithoutYear(text, parsed.year), parsed.genre)
         IN  left \in Seq(T \cup {Gap}) /\ Blanked(left, text, UsedUp(text, parsed))
<1> DEFINE N == Len(text)
           name == parsed.genre
           year == parsed.year
           V == T \cup {Gap}
           bare == WithoutYear(text, year)
           left == WithoutGenre(bare, name)
           Taken(i) == (text[i] = year /\ YearAt(text, i)) \/ (name # NoGenre /\ Covers(text, name, i))
<1>1. N \in Nat /\ DOMAIN text = 1..N
  BY LenProperties
<1>2. bare = [p \in 1..N |-> IF text[p] = year /\ YearAt(text, p) THEN Gap ELSE text[p]]
  BY <1>1 DEF WithoutYear
<1>3. bare \in Seq(V) /\ Len(bare) = N
  <2>1. \A p \in 1..N : text[p] \in V
    BY ElementOfSeq
  <2>2. bare \in [1..N -> V]
    BY <1>2, <2>1
  <2>3. QED
    BY <1>1, <2>2
<1>4. ASSUME NEW i \in 1..N PROVE Covers(bare, name, i) <=> Covers(text, name, i)
  <2>1. \A j \in 1..i : j \in 1..N
    BY <1>1
  <2>2. \A j \in 1..i : OccursAt(bare, name, j) <=> OccursAt(text, name, j)
    BY <2>1, YearLeavesNames
  <2>3. QED
    BY <2>2 DEF Covers
<1>5. UsedUp(text, parsed) = {i \in 1..N : text[i] \in Separators \/ Taken(i)}
  BY <1>1 DEF UsedUp, Covers
<1> HIDE DEF bare
<1>6. left = [i \in 1..N |-> IF Taken(i) THEN Gap ELSE text[i]]
  <2>1. CASE name = NoGenre
    <3>1. left = bare
      BY <2>1 DEF WithoutGenre
    <3>2. QED
      BY <1>2, <2>1, <3>1
  <2>2. CASE name # NoGenre
    <3>1. left = [i \in 1..N |-> IF Covers(bare, name, i) THEN Gap ELSE bare[i]]
      BY <1>3, <2>2, ReplaceOK
    <3>2. \A i \in 1..N : (IF Covers(bare, name, i) THEN Gap ELSE bare[i]) =
                          IF Taken(i) THEN Gap ELSE text[i]
      BY <1>2, <1>4, <2>2
    <3>3. QED
      BY <3>1, <3>2
  <2>3. QED
    BY <2>1, <2>2
<1> HIDE DEF left, Taken
<1>7. left \in Seq(V) /\ Len(left) = N
  <2>1. \A i \in 1..N : text[i] \in V
    BY ElementOfSeq
  <2>2. left \in [1..N -> V]
    BY <1>6, <2>1
  <2>3. QED
    BY <1>1, <2>2
<1>8. Gap \in Separators
  BY ParserAssumption
<1>9. Blanked(left, text, UsedUp(text, parsed))
  BY <1>5, <1>6, <1>7, <1>8 DEF Blanked
<1>10. QED
  BY <1>7, <1>9 DEF left, bare

\* Runs do not touch each other, and are in the same order by their ends as by their starts.
LEMMA RunsApart ==
  ASSUME NEW T, NEW text \in Seq(T), NEW used,
         NEW q \in Runs(text, used), NEW r \in Runs(text, used)
  PROVE  /\ q[1] < r[1] <=> q[2] < r[2]
         /\ q[1] = r[1] => q = r
         /\ q[2] = r[2] => q = r
<1> DEFINE N == Len(text)
           Run(p) == /\ p[1] \in 1..N /\ p[2] \in 1..N /\ p = <<p[1], p[2]>>
                     /\ p[1] <= p[2]
                     /\ \A i \in p[1]..p[2] : i \notin used
                     /\ p[1] > 1 => p[1] - 1 \in used
                     /\ p[2] < N => p[2] + 1 \in used
<1>1. N \in Nat /\ DOMAIN text = 1..N
  BY LenProperties
<1>2. Run(q) /\ Run(r)
  BY <1>1 DEF Runs
<1> HIDE DEF N
\* Of two runs, the one that starts first has ended before the other starts.
<1>3. ASSUME NEW a, NEW b, Run(a), Run(b), a[1] < b[1] PROVE a[2] < b[2]
  <2>1. b[1] - 1 \in used
    BY <1>1, <1>3
  <2>2. ~(b[1] - 1 \in a[1]..a[2])
    BY <1>3, <2>1
  <2>3. QED
    BY <1>1, <1>3, <2>2
<1>4. ASSUME NEW a, NEW b, Run(a), Run(b), a[1] = b[1], a[2] < b[2] PROVE FALSE
  <2>1. a[2] + 1 \in used /\ a[2] + 1 \in b[1]..b[2]
    BY <1>1, <1>4
  <2>2. QED
    BY <1>4, <2>1
<1>5. q[1] = r[1] => q[2] = r[2]
  <2> HIDE DEF Run
  <2>1. ~(q[1] = r[1] /\ q[2] < r[2]) /\ ~(r[1] = q[1] /\ r[2] < q[2])
    BY <1>2, <1>4
  <2>2. q[2] \in Int /\ r[2] \in Int
    BY <1>1, <1>2 DEF Run
  <2>3. QED
    BY <2>1, <2>2
<1>6. (q[1] < r[1] => q[2] < r[2]) /\ (r[1] < q[1] => r[2] < q[2])
  <2> HIDE DEF Run
  <2>1. QED
    BY <1>2, <1>3
<1>7. q[1] \in Int /\ r[1] \in Int /\ q[2] \in Int /\ r[2] \in Int
      /\ q = <<q[1], q[2]>> /\ r = <<r[1], r[2]>>
  BY <1>1, <1>2
<1>8. QED
  BY <1>5, <1>6, <1>7

\* Texts that agree on a part have the same part.
LEMMA SamePart ==
  ASSUME NEW T, NEW t \in Seq(T), NEW s, NEW n \in 1..Len(t), NEW m \in 1..n,
         \A i \in m..n : s[i] = t[i]
  PROVE  SubSeq(s, m, n) = SubSeq(t, m, n)
<1> DEFINE part == SubSeq(s, m, n)
           same == SubSeq(t, m, n)
<1>0. n \in Nat /\ m \in Nat /\ m <= n /\ \A i \in m..n : t[i] \in T
  BY LenProperties, ElementOfSeq
<1>1. /\ part \in Seq(T) /\ Len(part) = n - m + 1
      /\ \A k \in 1..(n - m + 1) : part[k] = s[m + k - 1]
  <2>1. \A i \in m..n : s[i] \in T
    BY <1>0
  <2>2. QED
    BY <1>0, <2>1, SubSeqProperties
<1>2. /\ same \in Seq(T) /\ Len(same) = n - m + 1
      /\ \A k \in 1..(n - m + 1) : same[k] = t[m + k - 1]
  BY <1>0, SubSeqProperties
<1> HIDE DEF part, same
<1>3. \A k \in 1..(n - m + 1) : m + k - 1 \in m..n
  BY <1>0
<1>4. \A k \in 1..(n - m + 1) : part[k] = same[k]
  BY <1>1, <1>2, <1>3
<1>5. part = same
  BY <1>0, <1>1, <1>2, <1>4, SeqEqual
<1>6. QED
  BY <1>5 DEF part, same

\* The words of a text are the runs of what is not used up, each where it ends.
EndsRun(text, used, bare, n) ==
    /\ EndsWord(bare, n) <=> \E r \in Runs(text, used) : r[2] = n
    /\ \A r \in Runs(text, used) : r[2] = n => WordTo(bare, n) = SubSeq(text, r[1], n)

LEMMA RunEnds ==
  ASSUME NEW T, NEW text \in Seq(T), NEW used, NEW bare, Blanked(bare, text, used),
         NEW n \in 1..Len(text)
  PROVE  EndsRun(text, used, bare, n)
<1> DEFINE N == Len(text)
<1>1. N \in Nat /\ DOMAIN text = 1..N /\ n \in 1..N /\ n \in Nat
  BY LenProperties
<1>2. \A i \in 1..N : (bare[i] \in Separators <=> i \in used) /\ (i \notin used => bare[i] = text[i])
  BY DEF Blanked
<1>3. Len(bare) = N
  BY DEF Blanked
<1>4. EndsWord(bare, n) <=> n \notin used /\ (n < N => n + 1 \in used)
  BY <1>1, <1>2, <1>3 DEF EndsWord
<1>5. Runs(text, used) = {r \in (1..N) \X (1..N) :
                             /\ r[1] <= r[2]
                             /\ \A i \in r[1]..r[2] : i \notin used
                             /\ r[1] > 1 => r[1] - 1 \in used
                             /\ r[2] < N => r[2] + 1 \in used}
  BY <1>1 DEF Runs
<1> HIDE DEF N
<1>6. ASSUME n \notin used, n < N => n + 1 \in used
      PROVE  \E r \in Runs(text, used) : r[2] = n
  <2> DEFINE S == {i \in 1..n : \A j \in i..n : j \notin used}
  <2>1. S \in SUBSET Nat /\ n \in S
    BY <1>1, <1>6
  <2>2. PICK i \in S : \A j \in S : i <= j
    <3> HIDE DEF S
    <3>1. QED
      BY <2>1, Least
  <2>3. i \in 1..N /\ i <= n /\ \A j \in i..n : j \notin used
    BY <1>1, <2>2
  <2>4. ASSUME i > 1, i - 1 \notin used PROVE FALSE
    <3>1. \A j \in (i - 1)..n : j \in i..n \/ j = i - 1
      BY <1>1, <2>3
    <3>2. i - 1 \in S
      BY <1>1, <2>3, <2>4, <3>1
    <3>3. QED
      BY <2>2, <2>3, <3>2
  <2>5. <<i, n>> \in Runs(text, used)
    BY <1>1, <1>5, <1>6, <2>3, <2>4
  <2>6. QED
    BY <2>5
<1>7. ASSUME NEW r \in Runs(text, used), r[2] = n
      PROVE  /\ n \notin used /\ (n < N => n + 1 \in used)
             /\ WordTo(bare, n) = SubSeq(text, r[1], n)
  <2> DEFINE Begins(i) == (i > 1 => bare[i - 1] \in Separators) /\ \A j \in i..n : bare[j] \notin Separators
  <2>1. /\ r[1] \in 1..n /\ r[1] \in Nat
        /\ \A i \in r[1]..n : i \notin used /\ i \in 1..N
        /\ r[1] > 1 => r[1] - 1 \in used /\ r[1] - 1 \in 1..N
        /\ n < N => n + 1 \in used
    BY <1>1, <1>5, <1>7
  <2>2. Begins(r[1])
    BY <1>2, <2>1
  <2>3. ASSUME NEW i \in 1..n, Begins(i) PROVE i = r[1]
    <3>1. CASE i < r[1]
      <4>1. r[1] - 1 \in i..n /\ bare[r[1] - 1] \in Separators
        BY <1>1, <1>2, <2>1, <3>1
      <4>2. QED
        BY <2>3, <4>1
    <3>2. CASE r[1] < i
      <4>1. i - 1 \in r[1]..n /\ i > 1
        BY <1>1, <2>1, <3>2
      <4>2. bare[i - 1] \notin Separators
        BY <1>2, <2>1, <4>1
      <4>3. QED
        BY <2>3, <4>1, <4>2
    <3>3. QED
      BY <1>1, <2>1, <3>1, <3>2
  <2>4. (CHOOSE i \in 1..n : Begins(i)) = r[1]
    <3> HIDE DEF Begins
    <3>1. QED
      BY <2>1, <2>2, <2>3
  <2>5. WordTo(bare, n) = SubSeq(bare, r[1], n)
    BY <2>4 DEF WordTo
  <2>6. SubSeq(bare, r[1], n) = SubSeq(text, r[1], n)
    <3>1. \A i \in r[1]..n : bare[i] = text[i]
      BY <1>2, <2>1
    <3>2. n \in 1..Len(text) /\ r[1] \in 1..n
      BY <2>1
    <3>3. QED
      BY <3>1, <3>2, SamePart
  <2>7. n \in r[1]..n
    BY <1>1, <2>1
  <2>8. QED
    BY <2>1, <2>5, <2>6, <2>7
<1>8. QED
  BY <1>1, <1>4, <1>6, <1>7 DEF EndsRun

\* The recursion of Keywords.
Keeps(text, kept) ==
    /\ Keywords(text) = kept[Len(text)]
    /\ kept[0] = <<>>
    /\ \A n \in 1..Len(text) :
         kept[n] = IF EndsWord(text, n) /\ ~IsGeneric(WordTo(text, n))
                   THEN Append(kept[n - 1], WordTo(text, n))
                   ELSE kept[n - 1]

LEMMA KeywordsUnfold ==
  ASSUME NEW T, NEW text \in Seq(T)
  PROVE  \E kept : Keeps(text, kept)
<1> DEFINE N == Len(text)
    W == {WordTo(text, n) : n \in 1..N}
    Kept(n) == EndsWord(text, n) /\ ~IsGeneric(WordTo(text, n))
    Follows(f) == f = [n \in 0..N |->
                         IF n = 0 THEN <<>>
                         ELSE IF EndsWord(text, n) /\ ~IsGeneric(WordTo(text, n))
                         THEN Append(f[n - 1], WordTo(text, n))
                         ELSE f[n - 1]]
    kept == CHOOSE f : Follows(f)
    Steps == {t \in Seq(W) \X (1..N) \X Seq(W) :
               t[3] = IF Kept(t[2]) THEN Append(t[1], WordTo(text, t[2])) ELSE t[1]}
<1>0. Keywords(text) = kept[N]
  BY DEF Keywords
<1>1. N \in Nat /\ \A n \in 1..N : WordTo(text, n) \in W
  BY LenProperties
<1>2. \A s \in Seq(W), n \in 1..N : \E t \in Seq(W) : <<s, n, t>> \in Steps
  <2> HIDE DEF W, Kept
  <2>1. ASSUME NEW s \in Seq(W), NEW n \in 1..N PROVE \E t \in Seq(W) : <<s, n, t>> \in Steps
    <3>1. Append(s, WordTo(text, n)) \in Seq(W)
      BY <1>1, AppendProperties
    <3>2. PICK t \in Seq(W) : t = IF Kept(n) THEN Append(s, WordTo(text, n)) ELSE s
      BY <3>1
    <3>3. QED
      BY <3>2
  <2>2. QED
    BY <2>1
<1> HIDE DEF N, W
<1>3. PICK f \in [0..N -> Seq(W)] :
        f[0] \in {<<>>} /\ \A n \in 1..N : <<f[n - 1], n, f[n]>> \in Steps
  <2> HIDE DEF Steps
  <2>1. <<>> \in Seq(W)
    OBVIOUS
  <2>2. QED
    BY <1>1, <1>2, <2>1, RecursionExists, Zenon
<1>4. Follows(f)
  <2>1. ASSUME NEW n \in 1..N
        PROVE  f[n] = IF Kept(n) THEN Append(f[n - 1], WordTo(text, n)) ELSE f[n - 1]
    <3> HIDE DEF Steps, Kept
    <3>1. <<f[n - 1], n, f[n]>> \in Steps
      BY <1>3
    <3> USE DEF Steps
    <3>2. QED
      BY <3>1, Zenon
  <2>2. ASSUME NEW n \in 0..N
        PROVE  f[n] = IF n = 0 THEN <<>>
                      ELSE IF EndsWord(text, n) /\ ~IsGeneric(WordTo(text, n))
                      THEN Append(f[n - 1], WordTo(text, n))
                      ELSE f[n - 1]
    <3> HIDE DEF Steps
    <3>1. CASE n = 0
      BY <1>3, <3>1
    <3>2. CASE n # 0
      <4>1. n \in 1..N
        BY <1>1, <3>2
      <4>2. QED
        BY <2>1, <3>2, <4>1, Zenon
    <3>3. QED
      BY <3>1, <3>2
  <2>3. f = [n \in 0..N |-> f[n]]
    BY <1>3
  <2> HIDE DEF Steps
  <2>4. QED
    BY <2>2, <2>3
<1>5. Follows(kept)
  <2> HIDE DEF Follows
  <2>1. QED
    BY <1>4
<1> HIDE DEF kept, Steps
<1> DEFINE Here(n) == IF n = 0 THEN <<>>
                      ELSE IF EndsWord(text, n) /\ ~IsGeneric(WordTo(text, n))
                      THEN Append(kept[n - 1], WordTo(text, n))
                      ELSE kept[n - 1]
<1>6. kept = [n \in 0..N |-> Here(n)]
  BY <1>5
<1>7. \A n \in 0..N : kept[n] = Here(n)
  <2> HIDE DEF Here
  <2>1. QED
    BY <1>6
<1>8. kept[0] = <<>>
  BY <1>1, <1>7
<1>9. ASSUME NEW n \in 1..N
      PROVE  kept[n] = IF EndsWord(text, n) /\ ~IsGeneric(WordTo(text, n))
                       THEN Append(kept[n - 1], WordTo(text, n))
                       ELSE kept[n - 1]
  <2>1. n \in 0..N /\ n # 0
    BY <1>1
  <2>2. QED
    BY <1>7, <2>1, Zenon
<1>10. Keeps(text, kept)
  BY <1>0, <1>8, <1>9 DEF N, Keeps
<1>11. QED
  BY <1>10

\* Some runs of a text, by where they end and by where they start.
Upto(words, n) == {r \in words : r[2] <= n}
Before(words, r) == {q \in words : q[1] < r[1]}

\* A word is the one before which there are as many as have ended before it ends.
InOrder(words, last) ==
    /\ IsFiniteSet(words)
    /\ Upto(words, 0) = {} /\ Upto(words, last) = words
    /\ \A n \in 0..last : Cardinality(Upto(words, n)) \in 0..Cardinality(words)
    /\ \A n \in 1..last : (\A r \in words : r[2] # n) => Upto(words, n) = Upto(words, n - 1)
    /\ \A r \in words :
         /\ r[2] \in 1..last
         /\ Cardinality(Upto(words, r[2])) = Cardinality(Upto(words, r[2] - 1)) + 1
         /\ r = CHOOSE q \in words :
                  Cardinality(Before(words, q)) = Cardinality(Upto(words, r[2] - 1))

LEMMA WordsInOrder ==
  ASSUME NEW T, NEW text \in Seq(T), NEW used, NEW words \in SUBSET Runs(text, used)
  PROVE  InOrder(words, Len(text))
<1> DEFINE N == Len(text)
<1>1. N \in Nat /\ DOMAIN text = 1..N
  BY LenProperties
<1>2. \A r \in words : r \in (1..N) \X (1..N)
  BY <1>1 DEF Runs
<1>3. IsFiniteSet(words)
  <2>0. IsFiniteSet(1..N)
    BY <1>1, FS_Interval
  <2>1. IsFiniteSet((1..N) \X (1..N))
    BY <2>0, FS_Product, Zenon
  <2>2. words \in SUBSET ((1..N) \X (1..N))
    BY <1>2
  <2>3. QED
    BY <2>1, <2>2, FS_Subset
<1>4. \A q, r \in words : /\ q[1] < r[1] <=> q[2] < r[2]
                          /\ q[1] = r[1] => q = r
                          /\ q[2] = r[2] => q = r
  BY RunsApart
<1> HIDE DEF N
<1>5. \A r \in words : r[1] \in 1..N /\ r[2] \in 1..N /\ r[1] \in Nat /\ r[2] \in Nat
  BY <1>1, <1>2
<1>6. Upto(words, 0) = {} /\ Upto(words, N) = words
  BY <1>1, <1>5 DEF Upto
<1>7. ASSUME NEW n
      PROVE  /\ IsFiniteSet(Upto(words, n))
             /\ Cardinality(Upto(words, n)) \in 0..Cardinality(words)
  <2>1. Upto(words, n) \in SUBSET words
    BY DEF Upto
  <2>2. QED
    BY <1>3, <2>1, FS_Subset, FS_CardinalityType
<1>8. ASSUME NEW n \in 1..N, \A r \in words : r[2] # n PROVE Upto(words, n) = Upto(words, n - 1)
  BY <1>1, <1>5, <1>8 DEF Upto
<1>9. ASSUME NEW r \in words
      PROVE  /\ Upto(words, r[2]) = Upto(words, r[2] - 1) \cup {r}
             /\ r \notin Upto(words, r[2] - 1)
             /\ Before(words, r) = Upto(words, r[2] - 1)
  <2>1. \A q \in words : q[2] <= r[2] <=> q[2] <= r[2] - 1 \/ q = r
    BY <1>4, <1>5
  <2>2. \A q \in words : q[1] < r[1] <=> q[2] <= r[2] - 1
    BY <1>4, <1>5
  <2>3. ~(r[2] <= r[2] - 1)
    BY <1>5
  <2>4. QED
    BY <2>1, <2>2, <2>3 DEF Upto, Before
<1>10. ASSUME NEW q \in words, NEW r \in words, q[1] < r[1]
       PROVE  Cardinality(Before(words, q)) < Cardinality(Before(words, r))
  <2> DEFINE B == Before(words, q)
             C == Before(words, r)
  <2>1. B \cup {q} \in SUBSET C /\ q \notin B
    BY <1>5, <1>10 DEF Before
  <2>2. IsFiniteSet(B) /\ IsFiniteSet(C)
    BY <1>7, <1>9
  <2> HIDE DEF B, C
  <2>3. IsFiniteSet(B \cup {q}) /\ Cardinality(B \cup {q}) = Cardinality(B) + 1
    BY <2>1, <2>2, FS_AddElement
  <2>4. Cardinality(B \cup {q}) <= Cardinality(C)
    BY <2>1, <2>2, FS_Subset
  <2>5. Cardinality(B) \in Nat /\ Cardinality(C) \in Nat
    BY <2>2, FS_CardinalityType
  <2>6. QED
    BY <2>3, <2>4, <2>5 DEF B, C
<1>11. ASSUME NEW r \in words
       PROVE  /\ Cardinality(Upto(words, r[2])) = Cardinality(Upto(words, r[2] - 1)) + 1
              /\ r = CHOOSE q \in words :
                       Cardinality(Before(words, q)) = Cardinality(Upto(words, r[2] - 1))
  <2>1. Cardinality(Upto(words, r[2])) = Cardinality(Upto(words, r[2] - 1)) + 1
    <3> DEFINE B == Upto(words, r[2] - 1)
    <3>1. IsFiniteSet(B) /\ r \notin B /\ Upto(words, r[2]) = B \cup {r}
      BY <1>7, <1>9
    <3> HIDE DEF B
    <3>2. Cardinality(B \cup {r}) = Cardinality(B) + 1
      BY <3>1, FS_AddElement
    <3>3. QED
      BY <3>1, <3>2 DEF B
  <2> DEFINE Same(q) == Cardinality(Before(words, q)) = Cardinality(Upto(words, r[2] - 1))
  <2>2. Same(r)
    BY <1>9
  <2>3. ASSUME NEW q \in words, Same(q) PROVE q = r
    <3>1. Cardinality(Before(words, q)) = Cardinality(Before(words, r))
      BY <1>9, <2>3
    <3>2. Cardinality(Before(words, q)) \in Nat /\ Cardinality(Before(words, r)) \in Nat
      BY <1>7, <1>9, FS_CardinalityType
    <3>3. ~(q[1] < r[1]) /\ ~(r[1] < q[1])
      BY <1>10, <3>1, <3>2
    <3>4. QED
      BY <1>4, <1>5, <3>3
  <2> HIDE DEF Same
  <2>4. (CHOOSE q \in words : Same(q)) = r
    BY <2>2, <2>3
  <2>5. QED
    BY <2>1, <2>4 DEF Same
<1>12. QED
  BY <1>3, <1>5, <1>6, <1>7, <1>8, <1>11 DEF N, InOrder

\* A sequence grows by its next element.
LEMMA GrowsByNext ==
  ASSUME NEW S, NEW s \in Seq(S), NEW n \in 1..Len(s)
  PROVE  SubSeq(s, 1, n) = Append(SubSeq(s, 1, n - 1), s[n])
<1>1. Len(s) \in Nat /\ n \in Nat /\ 1 \in 1..Len(s) /\ n \in 1..Len(s) /\ s[n] \in S
  BY LenProperties, ElementOfSeq
<1>2. SubSeq(s, 1, n) = SubSeq(s, 1, n - 1) \o <<s[n]>>
  BY <1>1, SubSeqRecursiveSecond
<1>3. SubSeq(s, 1, n - 1) \in Seq(S)
  <2>1. \A i \in 1..(n - 1) : s[i] \in S
    BY <1>1, ElementOfSeq
  <2>2. QED
    BY <1>1, <2>1, SubSeqProperties
<1>4. QED
  BY <1>1, <1>2, <1>3, AppendIsConcat

\* The keywords of a text in which the filter is blank are the runs of the other pieces.
LEMMA KeywordsAreRuns ==
  ASSUME NEW T, NEW text \in Seq(T), NEW parsed, NEW V, NEW bare \in Seq(V),
         Blanked(bare, text, UsedUp(text, parsed))
  PROVE  Keywords(bare) = IntendedKeywords(text, parsed)
<1> DEFINE N == Len(text)
           used == UsedUp(text, parsed)
           Word(r) == SubSeq(text, r[1], r[2])
           words == {r \in Runs(text, used) : ~IsGeneric(Word(r))}
           nth(k) == CHOOSE r \in words : Cardinality(Before(words, r)) = k - 1
           W == {Word(nth(k)) : k \in 1..Cardinality(words)}
           want == [k \in 1..Cardinality(words) |-> Word(nth(k))]
           c(n) == Cardinality(Upto(words, n))
<1>1. N \in Nat /\ DOMAIN text = 1..N
  BY LenProperties
<1>2. IntendedKeywords(text, parsed) = want
  BY DEF IntendedKeywords, Before
<1>3. Blanked(bare, text, used)
  OBVIOUS
<1>4. Len(bare) = N
  BY DEF Blanked
<1>5. PICK kept : Keeps(bare, kept)
  BY KeywordsUnfold
<1>6. /\ Keywords(bare) = kept[N]
      /\ kept[0] = <<>>
      /\ \A n \in 1..N : kept[n] = IF EndsWord(bare, n) /\ ~IsGeneric(WordTo(bare, n))
                                   THEN Append(kept[n - 1], WordTo(bare, n))
                                   ELSE kept[n - 1]
  BY <1>4, <1>5 DEF Keeps
<1>7. words \in SUBSET Runs(text, used)
  OBVIOUS
<1> HIDE DEF words
<1>8. /\ IsFiniteSet(words)
      /\ Upto(words, 0) = {} /\ Upto(words, N) = words
      /\ \A n \in 0..N : c(n) \in 0..Cardinality(words)
      /\ \A n \in 1..N : (\A r \in words : r[2] # n) => Upto(words, n) = Upto(words, n - 1)
      /\ \A r \in words :
           /\ r[2] \in 1..N
           /\ c(r[2]) = c(r[2] - 1) + 1
           /\ r = CHOOSE q \in words : Cardinality(Before(words, q)) = c(r[2] - 1)
  <2> HIDE DEF used
  <2>1. InOrder(words, Len(text))
    BY <1>7, WordsInOrder
  <2>2. QED
    BY <2>1 DEF InOrder
<1>9. Cardinality(words) \in Nat
  BY <1>8, FS_CardinalityType
<1>10. want \in Seq(W) /\ Len(want) = Cardinality(words)
  <2> HIDE DEF nth, Word
  <2>1. want \in [1..Cardinality(words) -> W]
    OBVIOUS
  <2> HIDE DEF want, W
  <2>2. QED
    BY <1>9, <2>1
<1>11. ASSUME NEW n \in 1..N
       PROVE  /\ EndsWord(bare, n) <=> \E r \in Runs(text, used) : r[2] = n
              /\ \A r \in Runs(text, used) : r[2] = n => WordTo(bare, n) = Word(r)
  <2> HIDE DEF used
  <2>1. EndsRun(text, used, bare, n)
    BY <1>3, RunEnds
  <2>2. QED
    BY <2>1 DEF EndsRun
<1>12. ASSUME NEW r \in words
       PROVE  /\ c(r[2]) \in 1..Len(want)
              /\ want[c(r[2])] = Word(r)
  <2> DEFINE k == c(r[2])
  <2>1. k \in 1..Cardinality(words) /\ k - 1 = c(r[2] - 1)
    <3>1. r[2] \in 0..N /\ r[2] - 1 \in 0..N /\ c(r[2]) = c(r[2] - 1) + 1
      BY <1>1, <1>8
    <3>2. c(r[2]) \in 0..Cardinality(words) /\ c(r[2] - 1) \in 0..Cardinality(words)
      BY <1>8, <3>1
    <3> HIDE DEF c
    <3>3. QED
      BY <1>9, <3>1, <3>2
  <2>2. nth(k) = r
    BY <1>8, <2>1
  <2> HIDE DEF k, nth, Word
  <2>3. want[k] = Word(nth(k))
    BY <2>1
  <2>4. QED
    BY <1>10, <2>1, <2>2, <2>3 DEF k
<1> HIDE DEF N, used, want, W, nth
<1> DEFINE Right(n) == kept[n] = SubSeq(want, 1, c(n))
           Good == {n \in 0..N : Right(n)}
<1>13. Right(0)
  <2>1. c(0) = 0
    BY <1>8, FS_EmptySet
  <2>2. SubSeq(want, 1, 0) = <<>>
    BY SubSeqEmpty
  <2>3. QED
    BY <1>6, <2>1, <2>2
<1>14. ASSUME NEW n \in 1..N, Right(n - 1) PROVE Right(n)
  <2>1. CASE \E r \in words : r[2] = n
    <3>1. PICK r \in words : r[2] = n
      BY <2>1
    <3>2. EndsWord(bare, n) /\ WordTo(bare, n) = Word(r) /\ ~IsGeneric(Word(r))
      BY <1>11, <3>1 DEF words
    <3>3. kept[n] = Append(kept[n - 1], Word(r))
      BY <1>6, <3>2
    <3>4. c(n) \in 1..Len(want) /\ want[c(n)] = Word(r) /\ c(n) - 1 = c(n - 1)
      <4>1. c(n) = c(n - 1) + 1
        BY <1>8, <3>1
      <4>2. c(n - 1) \in 0..Cardinality(words)
        <5>1. n - 1 \in 0..N
          BY <1>1
        <5>2. QED
          BY <1>8, <5>1
      <4>3. c(n) \in 1..Len(want) /\ want[c(n)] = Word(r)
        BY <1>12, <3>1
      <4> HIDE DEF c
      <4>4. QED
        BY <1>9, <4>1, <4>2, <4>3
    <3> HIDE DEF c, Word
    <3>5. SubSeq(want, 1, c(n)) = Append(SubSeq(want, 1, c(n) - 1), want[c(n)])
      BY <1>10, <3>4, GrowsByNext
    <3>6. QED
      BY <1>14, <3>3, <3>4, <3>5
  <2>2. CASE \A r \in words : r[2] # n
    <3>1. ~(EndsWord(bare, n) /\ ~IsGeneric(WordTo(bare, n)))
      <4>1. SUFFICES ASSUME EndsWord(bare, n) PROVE IsGeneric(WordTo(bare, n))
        OBVIOUS
      <4>2. PICK r \in Runs(text, used) : r[2] = n
        BY <1>11, <4>1
      <4>3. r \notin words /\ WordTo(bare, n) = Word(r)
        BY <1>11, <2>2, <4>2
      <4>4. QED
        BY <4>2, <4>3 DEF words
    <3>2. kept[n] = kept[n - 1]
      BY <1>6, <3>1
    <3>3. c(n) = c(n - 1)
      BY <1>8, <2>2
    <3>4. QED
      BY <1>14, <3>2, <3>3
  <2>3. QED
    BY <2>1, <2>2
<1>15. Right(N)
  <2> HIDE DEF Right
  <2>1. 0 \in Good /\ \A n \in 1..N : n - 1 \in Good => n \in Good
    BY <1>1, <1>13, <1>14
  <2> HIDE DEF Good
  <2>2. 0..N \subseteq Good
    BY <1>1, <2>1, Induction
  <2>3. N \in Good
    BY <1>1, <2>2
  <2>4. QED
    BY <2>3 DEF Good
<1>16. SubSeq(want, 1, Len(want)) = want
  BY <1>10, SubSeqFull
<1>17. QED
  BY <1>2, <1>6, <1>8, <1>10, <1>15, <1>16

\* Texts one behind the other are a text.
LEMMA FlattenType ==
  ASSUME NEW T, NEW texts \in Seq(Seq(T))
  PROVE  FlattenSeq(texts) \in Seq(T)
<1> DEFINE N == Len(texts)
    Follows(f) == f = [i \in 1..N |-> IF i = 1 THEN texts[i] ELSE f[i - 1] \o texts[i]]
    flatten == CHOOSE f : Follows(f)
    Steps == {t \in Seq(T) \X (1..(N - 1)) \X Seq(T) : t[3] = t[1] \o texts[t[2] + 1]}
<1>1. N \in Nat /\ \A i \in 1..N : texts[i] \in Seq(T)
  BY LenProperties, ElementOfSeq
<1>2. CASE N = 0
  <2>1. texts = <<>>
    BY <1>2, EmptySeq
  <2>2. QED
    BY <1>2, <2>1 DEF FlattenSeq
<1>3. CASE N # 0
  <2>1. FlattenSeq(texts) = flatten[N]
    BY <1>3 DEF FlattenSeq
  <2> HIDE DEF N
  <2>2. \A s \in Seq(T), i \in 1..(N - 1) : \E t \in Seq(T) : <<s, i, t>> \in Steps
    <3>1. ASSUME NEW s \in Seq(T), NEW i \in 1..(N - 1) PROVE \E t \in Seq(T) : <<s, i, t>> \in Steps
      <4>1. s \o texts[i + 1] \in Seq(T)
        BY <1>1, ConcatProperties
      <4>2. QED
        BY <4>1
    <3>2. QED
      BY <3>1
  <2>3. PICK f \in [0..(N - 1) -> Seq(T)] :
          f[0] \in {texts[1]} /\ \A i \in 1..(N - 1) : <<f[i - 1], i, f[i]>> \in Steps
    <3> HIDE DEF Steps
    <3>1. \E t \in Seq(T) : t \in {texts[1]}
      BY <1>1, <1>3
    <3>2. N - 1 \in Nat
      BY <1>1, <1>3
    <3>3. QED
      BY <2>2, <3>1, <3>2, RecursionExists, Zenon
  <2> DEFINE g == [i \in 1..N |-> f[i - 1]]
  <2>4. Follows(g)
    <3>1. ASSUME NEW i \in 1..N
          PROVE  g[i] = IF i = 1 THEN texts[i] ELSE g[i - 1] \o texts[i]
      <4> HIDE DEF Steps
      <4>1. CASE i = 1
        BY <2>3, <4>1
      <4>2. CASE i # 1
        <5>1. i - 1 \in 1..(N - 1) /\ i - 1 \in 1..N /\ (i - 1) + 1 = i
          BY <1>1, <4>2
        <5>2. <<f[(i - 1) - 1], i - 1, f[i - 1]>> \in Steps
          BY <2>3, <5>1
        <5>3. f[i - 1] = f[(i - 1) - 1] \o texts[(i - 1) + 1]
          BY <5>2, Zenon DEF Steps
        <5>4. g[i] = f[i - 1] /\ g[i - 1] = f[(i - 1) - 1]
          BY <5>1
        <5>5. g[i] = g[i - 1] \o texts[i]
          BY <5>1, <5>3, <5>4
        <5>6. QED
          BY <4>2, <5>5
      <4>3. QED
        BY <4>1, <4>2
    <3>2. g = [i \in 1..N |-> g[i]]
      OBVIOUS
    <3> HIDE DEF g, Steps
    <3>3. QED
      BY <3>1, <3>2
  <2>5. Follows(flatten)
    <3> HIDE DEF Follows, g
    <3>1. QED
      BY <2>4
  <2> HIDE DEF flatten, Steps
  <2> DEFINE Here(i) == IF i = 1 THEN texts[i] ELSE flatten[i - 1] \o texts[i]
             Good == {i \in 0..N : i = 0 \/ flatten[i] \in Seq(T)}
  <2>6. \A i \in 1..N : flatten[i] = Here(i)
    <3>1. flatten = [i \in 1..N |-> Here(i)]
      BY <2>5
    <3> HIDE DEF Here
    <3>2. QED
      BY <3>1
  <2>7. ASSUME NEW i \in 1..N, i - 1 \in Good PROVE i \in Good
    <3>1. flatten[i] \in Seq(T)
      <4>1. CASE i = 1
        BY <1>1, <2>6, <4>1
      <4>2. CASE i # 1
        <5>1. flatten[i - 1] \in Seq(T)
          BY <1>1, <2>7, <4>2
        <5>2. flatten[i] = flatten[i - 1] \o texts[i]
          BY <2>6, <4>2
        <5>3. texts[i] \in Seq(T)
          BY <1>1
        <5>4. QED
          BY <5>1, <5>2, <5>3, ConcatProperties
      <4>3. QED
        BY <4>1, <4>2
    <3>2. QED
      BY <1>1, <3>1
  <2>8. 0 \in Good
    BY <1>1
  <2> HIDE DEF Good
  <2>9. 0..N \subseteq Good
    BY <1>1, <2>7, <2>8, Induction
  <2>10. QED
    BY <1>1, <1>3, <2>1, <2>9 DEF Good
<1>4. QED
  BY <1>2, <1>3

\* Normalizing a text gives a text.
LEMMA NormalizeType ==
  ASSUME NEW text \in Seq(Pieces)
  PROVE  \E T : Normalize(text) \in Seq(T)
<1> DEFINE T == Pieces \cup UNION {Range(Synonyms[p]) : p \in DOMAIN Synonyms}
           Part(i) == IF text[i] \in DOMAIN Synonyms THEN Synonyms[text[i]] ELSE <<text[i]>>
           parts == [i \in DOMAIN text |-> Part(i)]
<1>1. Len(text) \in Nat /\ DOMAIN text = 1..Len(text)
  BY LenProperties
<1>2. ASSUME NEW i \in 1..Len(text) PROVE Part(i) \in Seq(T)
  <2>1. CASE text[i] \in DOMAIN Synonyms
    <3> DEFINE R == Range(Synonyms[text[i]])
    <3>1. Synonyms[text[i]] \in Seq(R)
      BY <2>1, ParserAssumption
    <3>2. R \subseteq T
      BY <2>1
    <3> HIDE DEF R, T
    <3>3. QED
      BY <2>1, <3>1, <3>2, SeqMonotonic
  <2>2. CASE text[i] \notin DOMAIN Synonyms
    <3>1. text[i] \in T
      BY ElementOfSeq
    <3> HIDE DEF T
    <3>2. QED
      BY <2>2, <3>1
  <2>3. QED
    BY <2>1, <2>2
<1> HIDE DEF T, Part
<1>3. parts \in [1..Len(text) -> Seq(T)]
  BY <1>1, <1>2
<1>4. parts \in Seq(Seq(T))
  <2> HIDE DEF parts
  <2>1. QED
    BY <1>1, <1>3
<1>5. Normalize(text) = FlattenSeq(parts)
  BY DEF Normalize, Part
<1> HIDE DEF parts
<1>6. QED
  BY <1>4, <1>5, FlattenType

\* The parser finds no genre or one of the list.
LEMMA GenreType ==
  ASSUME NEW text, NEW genres, genres \in {Genres, <<>>}
  PROVE  Nameable(GenreIn(text, genres))
<1> DEFINE mentioned == {g \in DOMAIN genres : Mentions(text, genres[g])}
           First(g) == \A h \in mentioned : g <= h
<1>1. CASE mentioned = {}
  <2>1. GenreIn(text, genres) = <<>>
    BY <1>1 DEF GenreIn, NoGenre
  <2>2. Nameable(<<>>)
    BY DEF Nameable
  <2>3. QED
    BY <2>1, <2>2
<1>2. CASE mentioned # {}
  <2>1. genres = Genres
    BY <1>2
  <2>2. DOMAIN Genres \in SUBSET Nat
    BY GenresAssumption, LenProperties
  <2>3. mentioned \in SUBSET Nat
    BY <2>1, <2>2
  <2>4. \E g \in mentioned : First(g)
    <3> HIDE DEF mentioned
    <3>1. QED
      BY <1>2, <2>3, Least
  <2> DEFINE g == CHOOSE g \in mentioned : First(g)
  <2>5. g \in mentioned
    <3> HIDE DEF mentioned, First
    <3>1. QED
      BY <2>4
  <2>6. GenreIn(text, genres) = genres[g]
    BY <1>2 DEF GenreIn
  <2> HIDE DEF g
  <2>7. Genres[g] \in Range(Genres)
    BY <2>1, <2>5 DEF Range
  <2>8. QED
    BY <2>1, <2>6, <2>7, GenresAssumption
<1>3. QED
  BY <1>1, <1>2

\* Of any prompt the parser uses up what stands for the filter, and nothing else.
THEOREM KeywordsAreIntended ==
  ASSUME NEW text \in Seq(Pieces), NEW genres \in {Genres, <<>>}
  PROVE  ParseQuery(text, genres).keywords =
           IntendedKeywords(Normalize(text), ParseQuery(text, genres))
<1> DEFINE norm == Normalize(text)
           parsed == ParseQuery(text, genres)
<1>1. PICK T : norm \in Seq(T)
  BY NormalizeType
<1>2. /\ parsed.genre = GenreIn(norm, genres)
      /\ parsed.keywords = Keywords(WithoutGenre(WithoutYear(norm, parsed.year), parsed.genre))
  BY DEF ParseQuery, ExtractSearchText
<1>3. Nameable(parsed.genre)
  BY <1>2, GenreType
<1> HIDE DEF norm, parsed
<1> DEFINE bare == WithoutGenre(WithoutYear(norm, parsed.year), parsed.genre)
<1>4. bare \in Seq(T \cup {Gap}) /\ Blanked(bare, norm, UsedUp(norm, parsed))
  BY <1>1, <1>3, UsedUpIsBlank
<1> HIDE DEF bare
<1>5. Keywords(bare) = IntendedKeywords(norm, parsed)
  BY <1>1, <1>4, KeywordsAreRuns
<1>6. QED
  BY <1>2, <1>5 DEF bare, norm, parsed

-----------------------------------------------------------------------------
(***************************************************************************)
(* The page.                                                               *)
(***************************************************************************)

\* What is left of a text without its outer whitespace.
LEMMA StripType == ASSUME NEW text \in Seq(Pieces) PROVE Strip(text) \in Seq(Pieces)
<1> DEFINE solid == {i \in DOMAIN text : text[i] \notin Whitespace}
           first == CHOOSE i \in solid : \A j \in solid : i <= j
           last  == CHOOSE i \in solid : \A j \in solid : i >= j
<1>1. CASE solid = {}
  BY <1>1 DEF Strip
<1>2. CASE solid # {}
  <2>1. solid \in SUBSET (1..Len(text)) /\ solid \in SUBSET Nat /\ Len(text) \in Nat
    OBVIOUS
  <2>2. first \in solid /\ last \in solid
    BY <1>2, <2>1, Least, Greatest
  <2>3. first \in 1..Len(text) /\ last \in 1..Len(text)
    BY <2>1, <2>2
  <2>4. \A i \in first..last : text[i] \in Pieces
    BY <2>3
  <2>5. SubSeq(text, first, last) \in Seq(Pieces)
    <3> HIDE DEF first, last
    <3>1. first \in Int /\ last \in Int
      BY <2>3
    <3>2. QED
      BY <2>4, <3>1, SubSeqProperties
  <2>6. QED
    BY <1>2, <2>5 DEF Strip
<1>3. QED
  BY <1>1, <1>2

\* The page sends the server what the server expects.
LEMMA PageSteps == PageTypeOK /\ [PageNext]_pageVars => [Next]_vars
<1> SUFFICES ASSUME PageTypeOK, [PageNext]_pageVars PROVE [Next]_vars
  OBVIOUS
<1>1. ASSUME NEW s \in Searches, NEW text \in Chips \cup {draft}, DoSearch(s, text)
      PROVE  Next
  BY <1>1, StripType, PageAssumption DEF DoSearch, Next, PageTypeOK
<1>2. CASE Server
  BY <1>2 DEF Server, Next
<1>3. CASE Answers
  BY <1>3 DEF Answers, HandleAnswer, ShowResults, ShowNoResults, ShowError, Reads, FillPanel
<1>4. CASE User
  BY <1>1, <1>4 DEF User, Edit, SearchNothing, OpenPanel, ClosePanel
<1>5. CASE UNCHANGED pageVars
  BY <1>5 DEF pageVars
<1>6. QED
  BY <1>2, <1>3, <1>4, <1>5 DEF PageNext
\* The page keeps the types of its elements.
LEMMA PageTypes == PageTypeOK /\ [PageNext]_pageVars /\ TypeOK' => PageTypeOK'
<1> SUFFICES ASSUME PageTypeOK, [PageNext]_pageVars, TypeOK' PROVE PageTypeOK'
  OBVIOUS
<1> USE DEF PageTypeOK, Status, Panel
<1>1. CASE Server \/ UNCHANGED pageVars
  BY <1>1 DEF Server, page, pageVars
<1>2. ASSUME NEW text \in Seq(Pieces), Edit(text) PROVE PageTypeOK'
  BY <1>2 DEF Edit
<1>3. CASE SearchNothing
  BY <1>3 DEF SearchNothing
<1>4. ASSUME NEW s \in Searches, NEW text \in Chips \cup {draft}, DoSearch(s, text)
      PROVE  PageTypeOK'
  <2>1. draft' \in Seq(Pieces)
    BY <1>4, StripType, PageAssumption DEF DoSearch
  <2>2. QED
    BY <1>4, <2>1 DEF DoSearch
<1>5. ASSUME panel' \in Panel, opening' \in [Openings -> {"new", "sent", "read"}],
             UNCHANGED <<draft, status, meta, grids, read>>
      PROVE  PageTypeOK'
  BY <1>5
<1>6. ASSUME ClosePanel \/ \E p \in Openings : OpenPanel(p) \/ FillPanel(p)
      PROVE  PageTypeOK'
  <2>1. ASSUME NEW p \in Openings, OpenPanel(p) PROVE PageTypeOK'
    BY <1>5, <2>1 DEF OpenPanel
  <2>2. ASSUME NEW p \in Openings, FillPanel(p) PROVE PageTypeOK'
    BY <1>5, <2>2 DEF FillPanel
  <2>3. CASE ClosePanel
    BY <1>5, <2>3 DEF ClosePanel
  <2>4. QED
    BY <1>6, <2>1, <2>2, <2>3
<1>7. ASSUME NEW s \in Searches, HandleAnswer(s) PROVE PageTypeOK'
  <2>1. /\ read' \subseteq Searches /\ UNCHANGED <<draft, panel, opening>>
        /\ meta' \in Searches \cup {Blank, Waiting}
    BY <1>7 DEF HandleAnswer, ShowResults, ShowNoResults, ShowError, Reads
  <2>2. status' \in Status
    BY <1>7 DEF HandleAnswer, ShowResults, ShowNoResults, ShowError
  <2>3. grids' \in Seq(Searches)
    <3>1. grids \in Seq(Searches) /\ Append(grids, s) \in Seq(Searches)
      BY AppendProperties
    <3>2. grids' = grids \/ grids' = Append(grids, s)
      BY <1>7 DEF HandleAnswer, ShowResults, ShowNoResults, ShowError
    <3>3. QED
      BY <3>1, <3>2
  <2>4. QED
    BY <2>1, <2>2, <2>3
<1>8. QED
  BY <1>1, <1>2, <1>3, <1>4, <1>5, <1>6, <1>7 DEF PageNext, User, Answers

\* A search that has been answered is left alone, and so is what its answer lists.
LEMMA AnswersStay ==
  ASSUME TypeOK, Progress, [Next]_vars, NEW t \in Searches, phase[t] = "answered"
  PROVE  phase'[t] = "answered" /\ Shown(t)' = Shown(t)
<1> USE DEF TypeOK
<1>1. phase'[t] = "answered" /\ lookup'[t] = lookup[t] /\ found'[t] = found[t] /\ prompt'[t] = prompt[t]
  <2>1. ASSUME NEW s \in Searches, Step(s)
        PROVE  phase'[t] = "answered" /\ lookup'[t] = lookup[t] /\ found'[t] = found[t]
    <3>1. phase[s] \in {"new", "leading", "following", "asking", "awaiting"}
      BY <2>1, StepKinds DEF Enters, Leaves, Finishes
    <3>2. t # s
      BY <3>1
    <3> DEFINE Kept == phase'[t] = phase[t] /\ lookup'[t] = lookup[t] /\ found'[t] = found[t]
    <3>3. ASSUME NEW how, NEW b, Continues(s, how, b) PROVE Kept
      BY <3>2, <3>3 DEF Continues, Turns
    <3>4. ASSUME NEW o, Concludes(s, o) PROVE Kept
      BY <3>2, <3>4 DEF Concludes
    <3>5. ASSUME Enters(s) PROVE Kept
      BY <3>2, <3>5 DEF Enters
    <3>6. QED
      BY <2>1, StepKinds, <3>3, <3>4, <3>5 DEF Calm, Faulty, Finishes
  <2>2. ASSUME NEW s \in Searches, Step(s) PROVE prompt' = prompt
    BY <2>2, StepFrame
  <2>3. CASE \E s \in Searches, text \in Seq(Pieces) : Submit(s, text)
    BY <2>3 DEF Submit, MoveTo
  <2>4. CASE Forget \/ Tick \/ UNCHANGED vars
    BY <2>4 DEF Forget, Tick, vars
  <2>5. QED
    BY <2>1, <2>2, <2>3, <2>4 DEF Next
<1>2. QED
  BY <1>1 DEF Shown, Parsed, Parse

\* A success is about a search that was answered.
SuccessIsAnswered ==
    status.kind = "success" => status.of \in Searches /\ phase[status.of] = "answered"

PageInv == PageTypeOK /\ Progress /\ SuccessIsAnswered /\ FoundIsShown

LEMMA PageInvHolds == PageSpec => []PageInv
<1>1. PageInit => PageInv
  <2> SUFFICES ASSUME PageInit PROVE PageInv
    OBVIOUS
  <2>1. TypeOK /\ Progress
    <3>1. InitialBreaker \in Breaker
      BY InitialBreakerOK
    <3>2. QED
      BY <3>1 DEF PageInit, Init, TypeOK, Progress, Phase, Lookup, Outcome
  <2>2. PageTypeOK
    BY <2>1 DEF PageInit, PageTypeOK, Status, Panel
  <2>3. SuccessIsAnswered /\ FoundIsShown
    BY DEF PageInit, SuccessIsAnswered, FoundIsShown
  <2>4. QED
    BY <2>1, <2>2, <2>3 DEF PageInv
<1>2. PageInv /\ [PageNext]_pageVars => PageInv'
  <2> SUFFICES ASSUME PageInv, [PageNext]_pageVars PROVE PageInv'
    OBVIOUS
  <2>1. PageTypeOK /\ TypeOK /\ Progress /\ [Next]_vars
    BY PageSteps DEF PageInv, PageTypeOK
  <2>2. TypeOK' /\ Progress'
    BY <2>1, StepTypes, StepProgress, OthersKeep DEF Next, Others
  <2>3. PageTypeOK'
    BY <2>1, <2>2, PageTypes
  <2>4. ASSUME UNCHANGED <<status, meta, grids>> PROVE SuccessIsAnswered' /\ FoundIsShown'
    <3> SUFFICES ASSUME status.kind = "success" PROVE SuccessIsAnswered' /\ FoundIsShown'
      BY <2>4 DEF SuccessIsAnswered, FoundIsShown
    <3>1. PICK t \in Searches : t = status.of /\ phase[t] = "answered"
      BY DEF PageInv, SuccessIsAnswered
    <3>2. phase'[t] = "answered" /\ Shown(t)' = Shown(t)
      BY <2>1, <3>1, AnswersStay
    <3>3. status' = status /\ status'.of = t
      BY <2>4, <3>1
    <3>4. Shown(status.of)' # <<>>
      BY <3>1, <3>2, <3>3 DEF PageInv, FoundIsShown
    <3>5. QED
      BY <2>4, <3>1, <3>2, <3>3, <3>4 DEF PageInv, SuccessIsAnswered, FoundIsShown
  <2>5. ASSUME NEW s \in Searches, ShowResults(s) PROVE SuccessIsAnswered' /\ FoundIsShown'
    <3>1. /\ phase[s] = "answered" /\ Shown(s) # <<>>
          /\ meta' = s /\ status' = [kind |-> "success", of |-> s] /\ grids' = Append(grids, s)
      BY <2>5 DEF ShowResults
    <3>2. phase'[s] = "answered" /\ Shown(s)' = Shown(s)
      BY <2>1, <3>1, AnswersStay
    <3>3. grids' # <<>> /\ grids'[Len(grids')] = s
      BY <2>1, <3>1 DEF PageTypeOK
    <3>4. SuccessIsAnswered'
      BY <3>1, <3>2 DEF SuccessIsAnswered
    <3>5. status'.of = s
      BY <3>1
    <3>6. FoundIsShown'
      BY <3>1, <3>2, <3>3, <3>5 DEF FoundIsShown
    <3>7. QED
      BY <3>4, <3>6
  <2>6. ASSUME status'.kind # "success" PROVE SuccessIsAnswered' /\ FoundIsShown'
    BY <2>6 DEF SuccessIsAnswered, FoundIsShown
  <2>7. SuccessIsAnswered' /\ FoundIsShown'
    <3>1. CASE Server \/ UNCHANGED pageVars
      BY <2>4, <3>1 DEF Server, page, pageVars
    <3>2. CASE User
      BY <2>4, <2>6, <3>2 DEF User, Edit, SearchNothing, DoSearch, OpenPanel, ClosePanel
    <3>3. CASE Answers
      BY <2>4, <2>5, <2>6, <3>3 DEF Answers, HandleAnswer, ShowNoResults, ShowError, FillPanel
    <3>4. QED
      BY <3>1, <3>2, <3>3 DEF PageNext
  <2>8. QED
    BY <2>2, <2>3, <2>7 DEF PageInv
<1>3. QED
  BY <1>1, <1>2, PTL DEF PageSpec

\* The elements of the page and the searches always have their types.
THEOREM PageTypesHold == PageSpec => []PageTypeOK
<1>1. PageInv => PageTypeOK
  BY DEF PageInv
<1>2. QED
  BY <1>1, PageInvHolds, PTL

\* Whatever is typed, with the genre list and without it, the keywords are the pieces
\* that do not stand for the filter.
THEOREM PromptsAreUnderstood == PageSpec => []ParserMeetsReference
<1>1. PageTypeOK => ParserMeetsReference
  BY KeywordsAreIntended DEF PageTypeOK, ParserMeetsReference
<1>2. QED
  BY <1>1, PageTypesHold, PTL

\* A success that the page announces is that of the last grid on it, whatever searches
\* overlap and in whatever order they are answered.
THEOREM SuccessIsShown == PageSpec => []FoundIsShown
<1>1. PageInv => FoundIsShown
  BY DEF PageInv
<1>2. QED
  BY <1>1, PageInvHolds, PTL

\* The page with its server is a use of Search: what holds of searches holds of its own.
THEOREM PageSearches == PageSpec => Spec /\ []SearchesFailForCause
<1>1. PageInit => Init
  BY DEF PageInit
<1>2. PageInv /\ [PageNext]_pageVars => [Next]_vars
  BY PageSteps DEF PageInv
<1>3. PageSpec => Spec
  BY <1>1, <1>2, PageInvHolds, PTL DEF PageSpec, Spec
<1>4. QED
  BY <1>3, FailuresHaveCause, PTL
=============================================================================
