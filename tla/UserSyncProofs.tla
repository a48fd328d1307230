---------------------------- MODULE UserSyncProofs ----------------------------
(***************************************************************************)
(* Proofs about UserSync, for any ids, emails and bounds.                   *)
(*                                                                         *)
(* TypeCorrect: rows, messages and what the handlers have at hand are of    *)
(* their types.  The invariant is Sound: a handler has at hand what its     *)
(* step needs.                                                             *)
(* SurveysAreKept: members of an organization find a complete survey there. *)
(* NoTwinsArise: without two handlers at work for it at once, or a change   *)
(* of its email, a user has one row.                                        *)
(***************************************************************************)
EXTENDS UserSync, SequenceTheorems, FiniteSetTheorems, TLAPS

-----------------------------------------------------------------------------
(* The inductive invariant: types, and what a handler has at hand            *)

Profiling == {"profile", "newprofile", "setprofile"}
Deleting  == {"remove", "erase", "deactivate", "destroy"}
Sync      == {"org", "neworg", "defaults", "dedupe", "survey", "parts", "sub", "newsub",
              "user", "adduser", "setuser", "reread"}

MsgType  == [kind : {"none", "sync", "remove", "erase", "visit", "edit"}, cf : Cfs \cup {"none"},
             email : Emails \cup {"none"}, given : SUBSET {"main", "sub"}]
WorkType == [at : Steps, msg : MsgType, try : 0..Tries, main : 0..Len(org), sub : 0..Len(org),
             row : 0..(Len(user) + Len(survey)), twins : SUBSET (1..Len(survey))]

UserType   == [cf : Cfs \cup {"none"}, email : Emails, active : BOOLEAN,
               main : 0..Len(org), sub : 0..Len(org)]
OrgType    == [code : {"main", "sub"}, parent : 0..Len(org)]
SurveyType == [org : 1..Len(org), flagged : BOOLEAN, deleted : BOOLEAN, parts : 0..Parts]

\* What a handler x has at hand is what its step needs of the rows u and s.
FitsIn(x, u, s) ==
    /\ x.at = "idle" => x = Idle
    /\ x.at # "idle" => x.msg.cf \in Cfs
    /\ x.at \in {"seek", "fetch"} => x.msg.kind = "visit" /\ x.msg.email = "none" /\ x.msg.given = {}
    /\ x.at \in Profiling => x.msg.kind = "edit" /\ x.msg.email \in Emails /\ x.msg.given = {}
    /\ x.at \in Deleting =>
          x.msg.kind \in {"remove", "erase"} /\ x.msg.email = "none" /\ x.msg.given = {}
    /\ x.at \in Sync => x.msg.kind \in {"sync", "visit"} /\ x.msg.email \in Emails
    /\ x.at \in {"org", "neworg"} => "main" \in x.msg.given
    /\ x.at \in {"defaults", "dedupe", "survey", "parts"} => x.main # 0
    /\ x.at \in {"sub", "newsub"} => "sub" \in x.msg.given
    /\ x.at = "setuser" => x.row \in 1..Len(u) /\ u[x.row].cf \in {x.msg.cf, "none"}
    /\ x.at = "parts" =>
          /\ x.row \in 1..Len(s) /\ s[x.row].org = x.main
          /\ ~s[x.row].flagged /\ ~s[x.row].deleted /\ s[x.row].parts < Parts
    /\ \A k \in x.twins : s[k].flagged

\* No two handlers write one survey.
OneWriter ==
    \A h, g \in Slots : work[h].at = "parts" /\ work[g].at = "parts" /\ work[h].row = work[g].row => h = g

RowsOK ==
    /\ user \in Seq(UserType) /\ org \in Seq(OrgType) /\ survey \in Seq(SurveyType)
    /\ \A k \in 1..Len(survey) : survey[k].flagged => survey[k].parts = Parts

RestOK ==
    /\ queue \in Seq(Messages)
    /\ last \in [Cfs -> Messages \cup {NoMessage}]
    /\ \A c \in Cfs : last[c].kind # "none" => last[c].cf = c
    /\ messages \in Nat /\ requests \in Nat /\ faults \in Nat
    /\ overlapped \subseteq Cfs /\ lost \subseteq Cfs /\ moved \subseteq Cfs /\ cut \subseteq Cfs
    /\ raced \subseteq {"main", "sub"}

WorkOK ==
    /\ work \in [Slots -> WorkType]
    /\ \A h \in Slots : FitsIn(work[h], user, survey)
    /\ OneWriter

Sound == RowsOK /\ RestOK /\ WorkOK

\* What every step keeps of the rows.
Keeps ==
    /\ Len(user) <= Len(user') /\ \A n \in 1..Len(user) : user'[n].cf \in {user[n].cf, "none"}
    /\ Len(org) <= Len(org') /\ \A n \in 1..Len(org) : org'[n] = org[n]
    /\ Len(survey) <= Len(survey')
    /\ \A k \in 1..Len(survey) :
          /\ survey'[k].org = survey[k].org /\ survey'[k].flagged = survey[k].flagged
          /\ ~survey[k].flagged => survey'[k].deleted = survey[k].deleted

-----------------------------------------------------------------------------
(* The first of a set                                                        *)

LEMMA LeastOf ==
    ASSUME NEW N \in Nat, NEW S \in SUBSET (1 .. N), S # {}
    PROVE  \E n \in S : \A m \in S : n <= m
<1> DEFINE below(n) == 1 .. n
           T == {below(n) : n \in S}
<1>1. T \subseteq SUBSET (1 .. N) /\ T # {}
  <2>1. ASSUME NEW n \in S
        PROVE  below(n) \in SUBSET (1 .. N)
    OBVIOUS
  <2>2. QED
    BY <2>1
<1>2. \E x \in T : \A y \in T : ~ (<<y, x>> \in StrictSubsetOrdering(1 .. N))
  <2>1. IsFiniteSet(1 .. N)
    BY FS_Interval
  <2>2. SUBSET (1 .. N) = FiniteSubsetsOf(1 .. N)
    BY <2>1, FS_FiniteSubsetsOfFinite
  <2>3. IsWellFoundedOn(StrictSubsetOrdering(1 .. N), SUBSET (1 .. N))
    BY <2>2, FS_StrictSubsetOrderingWellFounded
  <2> HIDE DEF T
  <2>4. QED
    BY <1>1, <2>3, WFMin
<1>3. PICK n \in S : \A m \in S : ~ (<<below(m), below(n)>> \in StrictSubsetOrdering(1 .. N))
  BY <1>2
<1>4. ASSUME NEW m \in S, m < n
      PROVE  FALSE
  <2>1. below(m) \subseteq below(n) /\ n \notin below(m) /\ n \in below(n)
    BY <1>4
  <2>2. below(m) \in SUBSET (1 .. N) /\ below(n) \in SUBSET (1 .. N)
    OBVIOUS
  <2>3. <<below(m), below(n)>> \in StrictSubsetOrdering(1 .. N)
    BY <2>1, <2>2 DEF StrictSubsetOrdering
  <2>4. QED
    BY <1>3, <2>3
<1>5. \A m \in S : m \in Int /\ n \in Int
  OBVIOUS
<1>6. QED
  BY <1>4, <1>5

LEMMA FirstOf ==
    ASSUME NEW N \in Nat, NEW S \in SUBSET (1 .. N)
    PROVE  /\ S = {} => First(S) = 0
           /\ S # {} => First(S) \in S /\ (\A k \in S : First(S) <= k)
           /\ First(S) \in 0..N
<1>1. CASE S = {}
  BY <1>1 DEF First
<1>2. CASE S # {}
  <2>1. \E n \in S : \A m \in S : n <= m
    BY <1>2, LeastOf
  <2>2. First(S) \in S /\ \A k \in S : First(S) <= k
    BY <1>2, <2>1 DEF First
  <2>3. \A k \in S : k \in 0..N
    OBVIOUS
  <2>4. QED
    BY <1>2, <2>2, <2>3
<1>3. QED
  BY <1>1, <1>2

-----------------------------------------------------------------------------
(* Types                                                                     *)

LEMMA SoundTypes ==
    ASSUME Sound
    PROVE  TypeOK
<1>1. /\ user \in Seq([cf : Cfs \cup {"none"}, email : Emails, active : BOOLEAN,
                       main : 0..Len(org), sub : 0..Len(org)])
      /\ org \in Seq([code : {"main", "sub"}, parent : 0..Len(org)])
      /\ survey \in Seq([org : 1..Len(org), flagged : BOOLEAN, deleted : BOOLEAN, parts : 0..Parts])
  BY DEF Sound, RowsOK, UserType, OrgType, SurveyType
<1>2. ASSUME NEW h \in Slots
      PROVE  /\ work[h].at \in Steps /\ work[h].try \in 0..Tries
             /\ {work[h].main, work[h].sub} \subseteq 0..Len(org)
             /\ work[h].row \in 0..(Len(user) + Len(survey)) /\ work[h].twins \subseteq 1..Len(survey)
  <2>1. work[h] \in WorkType
    BY DEF Sound, WorkOK
  <2>2. QED
    BY <2>1 DEF WorkType
<1>3. /\ queue \in Seq(Messages) /\ last \in [Cfs -> Messages \cup {NoMessage}]
      /\ bounds \in Nat \X Nat \X Nat
      /\ overlapped \cup lost \cup moved \cup cut \subseteq Cfs /\ raced \subseteq {"main", "sub"}
  BY DEF Sound, RestOK, bounds
<1>4. QED
  BY <1>1, <1>2, <1>3 DEF TypeOK

LEMMA Lengths ==
    ASSUME Sound
    PROVE  Len(user) \in Nat /\ Len(org) \in Nat /\ Len(survey) \in Nat /\ Len(queue) \in Nat
  BY DEF Sound, RowsOK, RestOK

LEMMA MessageFields ==
    ASSUME NEW m \in Messages
    PROVE  /\ m \in MsgType /\ m.cf \in Cfs
           /\ \/ m.kind = "sync" /\ m.email \in Emails
              \/ m.kind \in {"remove", "erase"} /\ m.email = "none" /\ m.given = {}
<1>1. CASE m \in [kind : {"sync"}, cf : Cfs, email : Emails, given : Givens]
  <2>1. m.given \in SUBSET {"main", "sub"}
    BY <1>1, ConstantsAssumption
  <2>2. m \in MsgType
    BY <1>1, <2>1 DEF MsgType
  <2>3. QED
    BY <1>1, <2>2
<1>2. CASE m \in [kind : {"remove", "erase"}, cf : Cfs, email : {"none"}, given : {{}}]
  <2>1. m \in MsgType
    BY <1>2 DEF MsgType
  <2>2. QED
    BY <1>2, <2>1
<1>3. QED
  BY <1>1, <1>2 DEF Messages

LEMMA IdleFields ==
    ASSUME Sound
    PROVE  /\ Idle \in WorkType /\ NoMessage \in MsgType
           /\ Idle.at = "idle" /\ Idle.msg = NoMessage /\ Idle.try = 0 /\ Idle.main = 0
           /\ Idle.sub = 0 /\ Idle.row = 0 /\ Idle.twins = {}
           /\ NoMessage.kind = "none" /\ NoMessage.cf = "none" /\ NoMessage.email = "none"
           /\ NoMessage.given = {}
<1>1. NoMessage \in MsgType
  BY DEF NoMessage, MsgType
<1>2. Idle \in WorkType
  BY <1>1, Lengths, ConstantsAssumption DEF Idle, WorkType, Steps
<1>3. QED
  BY <1>1, <1>2 DEF Idle, NoMessage

LEMMA AtHand ==
    ASSUME Sound, NEW h \in Slots
    PROVE  /\ work[h] \in WorkType /\ FitsIn(work[h], user, survey)
           /\ work[h].at \in Steps /\ work[h].msg \in MsgType /\ work[h].try \in 0..Tries
           /\ work[h].main \in 0..Len(org) /\ work[h].sub \in 0..Len(org)
           /\ work[h].row \in 0..(Len(user) + Len(survey)) /\ work[h].twins \subseteq 1..Len(survey)
           /\ work[h].msg.kind \in {"none", "sync", "remove", "erase", "visit", "edit"}
           /\ work[h].msg.cf \in Cfs \cup {"none"} /\ work[h].msg.email \in Emails \cup {"none"}
           /\ work[h].msg.given \subseteq {"main", "sub"}
<1>1. work[h] \in WorkType /\ FitsIn(work[h], user, survey)
  BY DEF Sound, WorkOK
<1>2. work[h].msg \in MsgType
  BY <1>1 DEF WorkType
<1>3. QED
  BY <1>1, <1>2 DEF WorkType, MsgType

\* A step of one handler: the others keep what they have.
LEMMA OneGoes ==
    ASSUME Sound, NEW h \in Slots, NEW x, Goes(h, x)
    PROVE  /\ work' = [g \in Slots |-> work'[g]] /\ work'[h] = x
           /\ \A g \in Slots \ {h} : work'[g] = work[g]
  BY DEF Goes, Sound, WorkOK

\* Every handler keeps what it has, or what it gets fits the rows there are.
LEMMA StepSound ==
    ASSUME Sound, RestOK', RowsOK', Keeps,
           work' = [g \in Slots |-> work'[g]],
           \A g \in Slots :
              \/ /\ work'[g] = work[g]
                 /\ work[g].at = "parts" => survey'[work[g].row].parts = survey[work[g].row].parts
              \/ work'[g] \in WorkType' /\ FitsIn(work'[g], user', survey'),
           OneWriter'
    PROVE  Sound'
<1>1. /\ Len(user) \in Nat /\ Len(org) \in Nat /\ Len(survey) \in Nat
      /\ Len(user') \in Nat /\ Len(org') \in Nat /\ Len(survey') \in Nat
  BY Lengths DEF RowsOK
<1>2. ASSUME NEW g \in Slots, work'[g] = work[g],
             work[g].at = "parts" => survey'[work[g].row].parts = survey[work[g].row].parts
      PROVE  work[g] \in WorkType' /\ FitsIn(work[g], user', survey')
  <2>1. PICK x : x = work[g]
    OBVIOUS
  <2>2. x \in WorkType /\ FitsIn(x, user, survey)
    BY <2>1, AtHand
  <2>3. /\ x.at \in Steps /\ x.msg \in MsgType /\ x.try \in 0..Tries
        /\ x.main \in 0..Len(org) /\ x.sub \in 0..Len(org)
        /\ x.row \in 0..(Len(user) + Len(survey)) /\ x.twins \subseteq 1..Len(survey)
    BY <2>1, AtHand
  <2>4. /\ x.main \in 0..Len(org') /\ x.sub \in 0..Len(org')
        /\ x.row \in 0..(Len(user') + Len(survey')) /\ x.twins \subseteq 1..Len(survey')
    BY <1>1, <2>3 DEF Keeps
  <2>5. x \in WorkType'
    BY <2>2, <2>3, <2>4 DEF WorkType
  <2>6. x.at = "setuser" => x.row \in 1..Len(user') /\ user'[x.row].cf \in {x.msg.cf, "none"}
    BY <1>1, <2>2 DEF FitsIn, Keeps
  <2>7. x.at = "parts" =>
          /\ x.row \in 1..Len(survey') /\ survey'[x.row].org = x.main
          /\ ~survey'[x.row].flagged /\ ~survey'[x.row].deleted /\ survey'[x.row].parts < Parts
    BY <1>1, <1>2, <2>1, <2>2 DEF FitsIn, Keeps
  <2>8. FitsIn(x, user', survey')
    <3>1. \A k \in x.twins : survey'[k].flagged
      BY <2>2, <2>3 DEF FitsIn, Keeps
    <3>2. QED
      BY <2>2, <2>6, <2>7, <3>1 DEF FitsIn
  <2>9. QED
    BY <2>1, <2>5, <2>8
<1>3. \A g \in Slots : work'[g] \in WorkType' /\ FitsIn(work'[g], user', survey')
  BY <1>2
<1>4. work' \in [Slots -> WorkType']
  BY <1>3
<1>5. QED
  BY <1>3, <1>4 DEF Sound, WorkOK

\* A step of one handler that writes no survey.
LEMMA HandlerSound ==
    ASSUME Sound, RestOK', RowsOK', Keeps, NEW h \in Slots, NEW x, Goes(h, x),
           x \in WorkType', FitsIn(x, user', survey'), x.at # "parts",
           \A k \in 1..Len(survey) : survey'[k].parts = survey[k].parts
    PROVE  Sound'
<1>1. /\ work' = [g \in Slots |-> work'[g]] /\ work'[h] = x
      /\ \A g \in Slots \ {h} : work'[g] = work[g]
  BY OneGoes
<1>2. OneWriter'
  BY <1>1 DEF OneWriter, Sound, WorkOK
<1>3. \A g \in Slots : work[g].at = "parts" => work[g].row \in 1..Len(survey)
  BY AtHand DEF FitsIn
<1>4. QED
  BY <1>1, <1>2, <1>3, StepSound

LEMMA SameRows ==
    ASSUME Sound, UNCHANGED rows
    PROVE  RowsOK' /\ Keeps /\ WorkType' = WorkType
  BY Lengths DEF rows, Sound, RowsOK, Keeps, UserType, OrgType, SurveyType, WorkType

\* A step of one handler that writes nothing.
LEMMA ReadSound ==
    ASSUME Sound, RestOK', UNCHANGED rows, NEW h \in Slots, NEW x, Goes(h, x),
           x \in WorkType, FitsIn(x, user, survey), x.at # "parts"
    PROVE  Sound'
<1>1. UNCHANGED <<user, org, survey>>
  BY DEF rows
<1>2. QED
  BY <1>1, SameRows, HandlerSound

LEMMA SameRest ==
    ASSUME Sound, UNCHANGED <<queue, last, bounds, history>>
    PROVE  RestOK'
  BY DEF Sound, RestOK, bounds, history

LEMMA AtFields ==
    ASSUME Sound, NEW h \in Slots, NEW l \in Steps, NEW x, x = [work[h] EXCEPT !.at = l]
    PROVE  /\ x \in WorkType /\ x.at = l /\ x.msg = work[h].msg /\ x.row = work[h].row
           /\ x.main = work[h].main /\ x.sub = work[h].sub /\ x.twins = work[h].twins
<1>1. work[h] \in WorkType
  BY AtHand
<1>2. QED
  BY <1>1 DEF WorkType

LEMMA DoneSound ==
    ASSUME Sound, RestOK', RowsOK', Keeps, NEW h \in Slots, Done(h),
           \A k \in 1..Len(survey) : survey'[k].parts = survey[k].parts
    PROVE  Sound'
<1>1. Idle \in WorkType /\ Idle.at = "idle"
  BY IdleFields
<1>2. Idle \in WorkType'
  <2>1. /\ Len(user) \in Nat /\ Len(org) \in Nat /\ Len(survey) \in Nat
        /\ Len(user') \in Nat /\ Len(org') \in Nat /\ Len(survey') \in Nat
    BY Lengths DEF RowsOK
  <2>2. /\ Idle.main \in 0..Len(org') /\ Idle.sub \in 0..Len(org')
        /\ Idle.row \in 0..(Len(user') + Len(survey')) /\ Idle.twins \subseteq 1..Len(survey')
    BY <2>1, IdleFields
  <2>3. QED
    BY <1>1, <2>2 DEF WorkType
<1>3. FitsIn(Idle, user', survey')
  BY <1>1, IdleFields DEF FitsIn, Profiling, Deleting, Sync
<1>4. QED
  BY <1>1, <1>2, <1>3, HandlerSound DEF Done

LEMMA DoneReads ==
    ASSUME Sound, RestOK', UNCHANGED rows, NEW h \in Slots, Done(h)
    PROVE  Sound'
<1>1. UNCHANGED <<user, org, survey>>
  BY DEF rows
<1>2. QED
  BY <1>1, SameRows, DoneSound

\* A handler at the beginning of its work.
Start(m, l, t) == [Idle EXCEPT !.at = l, !.msg = m, !.try = t]

Fresh(m, l) ==
    \/ l = "seek" /\ m.kind = "visit" /\ m.email = "none" /\ m.given = {}
    \/ l = "profile" /\ m.kind = "edit" /\ m.email \in Emails /\ m.given = {}
    \/ l \in {"remove", "erase"} /\ m.kind = l /\ m.email = "none" /\ m.given = {}
    \/ l = Begin(m) /\ m.kind \in {"sync", "visit"} /\ m.email \in Emails

LEMMA FreshFits ==
    ASSUME Sound, NEW m \in MsgType, m.cf \in Cfs, NEW l, Fresh(m, l), NEW t \in 0..Tries,
           NEW x, x = Start(m, l, t)
    PROVE  /\ x \in WorkType /\ FitsIn(x, user, survey) /\ x.at = l /\ x.msg = m
           /\ x.at \in {"seek", "profile", "remove", "erase", "org", "sub", "user"}
           /\ x.main = 0 /\ x.sub = 0 /\ x.row = 0 /\ x.twins = {}
<1>1. /\ l \in {"seek", "profile", "remove", "erase", "org", "sub", "user"}
      /\ l = "org" => "main" \in m.given
      /\ l = "sub" => "sub" \in m.given
      /\ l \in {"org", "sub", "user"} => m.kind \in {"sync", "visit"} /\ m.email \in Emails
      /\ l = "seek" => m.kind = "visit" /\ m.email = "none" /\ m.given = {}
      /\ l = "profile" => m.kind = "edit" /\ m.email \in Emails /\ m.given = {}
      /\ l \in {"remove", "erase"} => m.kind = l /\ m.email = "none" /\ m.given = {}
  BY DEF Fresh, Begin
<1>2. /\ Idle \in WorkType /\ Idle.main = 0 /\ Idle.sub = 0 /\ Idle.row = 0 /\ Idle.twins = {}
  BY IdleFields
<1>3. l \in Steps
  BY <1>1 DEF Steps
<1>4. /\ x \in WorkType /\ x.at = l /\ x.msg = m
      /\ x.main = 0 /\ x.sub = 0 /\ x.row = 0 /\ x.twins = {}
  BY <1>2, <1>3 DEF WorkType, Start
<1>5. FitsIn(x, user, survey)
  BY <1>1, <1>4 DEF FitsIn, Profiling, Deleting, Sync
<1>6. QED
  BY <1>1, <1>4, <1>5

LEMMA AnnounceSound ==
    ASSUME Sound, NEW m \in Messages, Announce(m)
    PROVE  Sound'
<1>1. UNCHANGED <<rows, work, requests, faults, overlapped, raced, lost, cut>>
  BY DEF Announce
<1>2. m.cf \in Cfs /\ m.kind # "none"
  BY MessageFields
<1>3. queue' \in Seq(Messages)
  BY DEF Announce, Sound, RestOK
<1>4. /\ last' \in [Cfs -> Messages \cup {NoMessage}]
      /\ \A c \in Cfs : last'[c].kind # "none" => last'[c].cf = c
  BY <1>2 DEF Announce, Sound, RestOK
<1>5. messages' \in Nat /\ moved' \subseteq Cfs
  BY <1>2 DEF Announce, Sound, RestOK
<1>6. RestOK'
  BY <1>1, <1>3, <1>4, <1>5 DEF RestOK, Sound
<1>7. WorkOK'
  <2>1. WorkType' = WorkType /\ UNCHANGED <<user, org, survey>>
    BY <1>1, SameRows DEF rows
  <2>2. QED
    BY <1>1, <2>1 DEF WorkOK, OneWriter, Sound
<1>8. QED
  BY <1>1, <1>6, <1>7, SameRows DEF Sound

LEMMA StartsSound ==
    ASSUME Sound, NEW h \in Slots, NEW m \in MsgType, m.cf \in Cfs, NEW l, Fresh(m, l), Starts(h, m, l),
           UNCHANGED <<rows, last, lost, cut>>, moved' \subseteq Cfs,
           queue' \in Seq(Messages), messages' \in Nat, requests' \in Nat, faults' \in Nat
    PROVE  Sound'
<1>0. PICK x : x = Start(m, l, Tries)
  OBVIOUS
<1>1. Goes(h, x) /\ Tries \in 0..Tries
  BY <1>0, ConstantsAssumption DEF Starts, Start
<1>2. /\ x \in WorkType /\ FitsIn(x, user, survey)
      /\ x.at \in {"seek", "profile", "remove", "erase", "org", "sub", "user"}
  BY <1>0, <1>1, FreshFits
<1>3. overlapped' \subseteq Cfs /\ raced' \subseteq {"main", "sub"}
  <2>1. \A g \in Slots : work[g].msg.given \cap m.given \subseteq {"main", "sub"}
    BY AtHand
  <2>2. raced' = raced \cup UNION {work[g].msg.given \cap m.given : g \in {k \in Slots : Busy(k)}}
    BY DEF Starts
  <2>3. raced' \subseteq {"main", "sub"}
    BY <2>1, <2>2 DEF Sound, RestOK
  <2>4. overlapped' \subseteq Cfs
    BY DEF Starts, Sound, RestOK
  <2>5. QED
    BY <2>3, <2>4
<1>4. RestOK'
  BY <1>3 DEF RestOK, Sound
<1>5. QED
  BY <1>1, <1>2, <1>4, ReadSound

LEMMA DeliverSound ==
    ASSUME Sound, NEW h \in Slots, Deliver(h)
    PROVE  Sound'
<1> DEFINE m == Head(queue)
           l == IF m.kind = "sync" THEN Begin(m) ELSE m.kind
<1>1. queue # <<>> /\ queue \in Seq(Messages)
  BY DEF Deliver, Sound, RestOK
<1>2. m \in Messages /\ Tail(queue) \in Seq(Messages)
  BY <1>1, HeadTailProperties
<1>3. Starts(h, m, l) /\ queue' = Tail(queue)
  BY DEF Deliver
<1>4. /\ m \in MsgType /\ m.cf \in Cfs
      /\ \/ m.kind = "sync" /\ m.email \in Emails
         \/ m.kind \in {"remove", "erase"} /\ m.email = "none" /\ m.given = {}
  BY <1>2, MessageFields
<1>5. Fresh(m, l)
  <2> HIDE DEF m
  <2>1. QED
    BY <1>4 DEF Fresh
<1> HIDE DEF m, l
<1>6. UNCHANGED <<rows, last, bounds, lost, moved, cut>>
  BY DEF Deliver
<1>7. QED
  BY <1>2, <1>3, <1>4, <1>5, <1>6, StartsSound DEF Sound, RestOK, bounds

LEMMA VisitSound ==
    ASSUME Sound, NEW h \in Slots, NEW c \in Cfs, Visit(h, c)
    PROVE  Sound'
<1> DEFINE m == [NoMessage EXCEPT !.kind = "visit", !.cf = c]
<1>1. m \in MsgType /\ m.cf = c /\ m.kind = "visit" /\ m.email = "none" /\ m.given = {}
  BY IdleFields DEF NoMessage, MsgType
<1>2. Starts(h, m, "seek")
  BY DEF Visit
<1> HIDE DEF m
<1>3. UNCHANGED <<queue, rows, last, messages, faults, lost, moved, cut>> /\ requests' \in Nat
  BY DEF Visit, Sound, RestOK
<1>4. QED
  BY <1>1, <1>2, <1>3, StartsSound DEF Sound, RestOK, Fresh

LEMMA EditSound ==
    ASSUME Sound, NEW h \in Slots, NEW c \in Cfs, NEW e \in Emails, Edit(h, c, e)
    PROVE  Sound'
<1> DEFINE m == [NoMessage EXCEPT !.kind = "edit", !.cf = c, !.email = e]
<1>1. m \in MsgType /\ m.cf = c /\ m.kind = "edit" /\ m.email = e /\ m.given = {}
  BY IdleFields DEF NoMessage, MsgType
<1>2. Starts(h, m, "profile")
  BY DEF Edit
<1> HIDE DEF m
<1>3. /\ UNCHANGED <<queue, rows, last, messages, faults, lost, cut>> /\ requests' \in Nat
      /\ moved' \subseteq Cfs
  BY DEF Edit, Sound, RestOK
<1>4. QED
  BY <1>1, <1>2, <1>3, StartsSound DEF Sound, RestOK, Fresh

\* A step that changes one handler's place, to one that asks nothing new.
LEMMA AtSound ==
    ASSUME Sound, NEW h \in Slots, NEW l \in Steps, At(h, l),
           UNCHANGED <<queue, rows, last, bounds>>, RestOK',
           \/ work[h].at = "seek" /\ l = "fetch"
           \/ work[h].at = "profile" /\ l = "setprofile"
           \/ work[h].at \in {"remove", "erase"} /\ l \in {"deactivate", "destroy"}
           \/ work[h].at \in {"sub", "newsub"} /\ l = "user"
    PROVE  Sound'
<1>1. PICK x : x = [work[h] EXCEPT !.at = l]
  OBVIOUS
<1>2. /\ x \in WorkType /\ x.at = l /\ x.msg = work[h].msg /\ x.row = work[h].row
      /\ x.main = work[h].main /\ x.sub = work[h].sub /\ x.twins = work[h].twins
  BY <1>1, AtFields
<1>3. FitsIn(work[h], user, survey)
  BY AtHand
<1>4. FitsIn(x, user, survey) /\ x.at # "parts"
  BY <1>2, <1>3 DEF FitsIn, Profiling, Deleting, Sync
<1>5. Goes(h, x)
  BY <1>1 DEF At
<1>6. QED
  BY <1>2, <1>4, <1>5, ReadSound

LEMMA SeekSound ==
    ASSUME Sound, NEW h \in Slots, Seek(h)
    PROVE  Sound'
<1>1. UNCHANGED <<queue, rows, last, bounds, history>> /\ work[h].at = "seek"
  BY DEF Seek
<1>2. RestOK'
  BY <1>1, SameRest
<1>3. Done(h) \/ At(h, "fetch")
  BY DEF Seek
<1>4. "fetch" \in Steps
  BY DEF Steps
<1>5. QED
  BY <1>1, <1>2, <1>3, <1>4, AtSound, DoneReads

\* The other handlers' organizations are among the two.
LEMMA RacedTypes ==
    ASSUME Sound, NEW S \in SUBSET Slots, NEW G \in SUBSET {"main", "sub"},
           raced' = raced \cup UNION {work[g].msg.given \cap G : g \in S}
    PROVE  raced' \subseteq {"main", "sub"}
<1>1. \A g \in S : work[g].msg.given \cap G \subseteq {"main", "sub"}
  BY AtHand
<1>2. QED
  BY <1>1 DEF Sound, RestOK

LEMMA FetchSound ==
    ASSUME Sound, NEW h \in Slots, Fetch(h)
    PROVE  Sound'
<1> DEFINE c == work[h].msg.cf
<1>1. work[h].at = "fetch" /\ c \in Cfs
  BY AtHand DEF Fetch, FitsIn
<1>2. PICK m : m = last[c]
  OBVIOUS
<1>3. UNCHANGED <<queue, rows, last, bounds, overlapped, lost, moved, cut>>
  BY DEF Fetch
<1>4. CASE Done(h) /\ UNCHANGED raced
  BY <1>3, <1>4, SameRest, DoneReads DEF history
<1>5. CASE m.kind = "sync" /\ "main" \in m.given
  <2>1. PICK n : n = [m EXCEPT !.kind = "visit", !.given = {"main"}]
    OBVIOUS
  <2>2. PICK x : x = [work[h] EXCEPT !.at = Begin(n), !.msg = n]
    OBVIOUS
  <2>3. Goes(h, x) /\ raced' = raced \cup UNION {work[g].msg.given \cap n.given : g \in Slots \ {h}}
    BY <1>2, <1>5, <2>1, <2>2 DEF Fetch
  <2>4. m \in Messages
    BY <1>1, <1>2, <1>5, IdleFields DEF Sound, RestOK
  <2>5. m \in MsgType /\ m.cf = c /\ m.email \in Emails
    BY <1>1, <1>2, <1>5, <2>4, MessageFields DEF Sound, RestOK
  <2>6. n \in MsgType /\ n.cf = c /\ n.email \in Emails /\ n.kind = "visit" /\ n.given = {"main"}
    BY <2>1, <2>5 DEF MsgType
  <2>7. Begin(n) = "org" /\ "org" \in Steps
    BY <2>6 DEF Begin, Steps
  <2>8. x \in WorkType /\ x.at = "org" /\ x.msg = n /\ x.twins = work[h].twins
    BY <2>2, <2>6, <2>7, AtHand DEF WorkType
  <2>9. FitsIn(x, user, survey)
    BY <1>1, <2>6, <2>8, AtHand DEF FitsIn, Profiling, Deleting, Sync
  <2>10. raced' \subseteq {"main", "sub"}
    BY <2>3, <2>6, RacedTypes
  <2>11. RestOK'
    BY <1>3, <2>10 DEF RestOK, Sound, bounds
  <2>12. QED
    BY <1>3, <2>3, <2>8, <2>9, <2>11, ReadSound
<1>6. QED
  BY <1>2, <1>4, <1>5 DEF Fetch

LEMMA ProfileSound ==
    ASSUME Sound, NEW h \in Slots, NEW caller \in Cfs, Profile(h, caller)
    PROVE  Sound'
<1>1. work[h].at = "profile" /\ UNCHANGED <<queue, rows, last, bounds, overlapped, raced, lost, cut>>
  BY DEF Profile
<1>2. moved' \subseteq Cfs
  BY DEF Profile, Sound, RestOK
<1>3. RestOK'
  BY <1>1, <1>2 DEF RestOK, Sound, bounds
<1>4. CASE At(h, "setprofile")
  BY <1>1, <1>3, <1>4, AtSound DEF Steps
<1>5. CASE RowsOf(work[h].msg.cf) = {}
  <2>1. PICK x : x = [work[h] EXCEPT !.at = "newprofile", !.msg.cf = caller]
    OBVIOUS
  <2>2. Goes(h, x)
    BY <1>5, <2>1 DEF Profile
  <2>3. PICK m : m = work[h].msg
    OBVIOUS
  <2>4. PICK n : n = [m EXCEPT !.cf = caller]
    OBVIOUS
  <2>5. m \in MsgType /\ m.kind = "edit" /\ m.email \in Emails /\ m.given = {}
    BY <1>1, <2>3, AtHand DEF FitsIn, Profiling
  <2>6. n \in MsgType /\ n.kind = "edit" /\ n.email \in Emails /\ n.given = {} /\ n.cf = caller
    BY <2>4, <2>5 DEF MsgType
  <2>7. x = [work[h] EXCEPT !.at = "newprofile", !.msg = n]
    BY <2>1, <2>3, <2>4
  <2>8. x \in WorkType /\ x.at = "newprofile" /\ x.msg = n /\ x.twins = work[h].twins
    BY <2>6, <2>7, AtHand DEF WorkType, Steps
  <2>9. FitsIn(x, user, survey)
    BY <2>6, <2>8, AtHand DEF FitsIn, Profiling, Deleting, Sync
  <2>10. QED
    BY <1>1, <1>3, <2>2, <2>8, <2>9, ReadSound
<1>6. QED
  BY <1>4, <1>5 DEF Profile

LEMMA FindDeletedSound ==
    ASSUME Sound, NEW h \in Slots, FindDeleted(h)
    PROVE  Sound'
<1>1. UNCHANGED <<queue, rows, last, bounds, history>> /\ work[h].at \in {"remove", "erase"}
  BY DEF FindDeleted
<1>2. RestOK'
  BY <1>1, SameRest
<1>3. Done(h) \/ At(h, "deactivate") \/ At(h, "destroy")
  BY DEF FindDeleted
<1>4. {"deactivate", "destroy"} \subseteq Steps
  BY DEF Steps
<1>5. QED
  BY <1>1, <1>2, <1>3, <1>4, AtSound, DoneReads

\* Rows of users are changed, none is lost and none changes hands.
LEMMA UsersChange ==
    ASSUME Sound, UNCHANGED <<queue, org, survey, last, bounds, history>>,
           user' \in Seq(UserType), Len(user) <= Len(user'),
           \A n \in 1..Len(user) : user'[n].cf \in {user[n].cf, "none"}
    PROVE  RowsOK' /\ RestOK' /\ Keeps /\ \A k \in 1..Len(survey) : survey'[k].parts = survey[k].parts
<1>1. RowsOK'
  BY DEF Sound, RowsOK, UserType, OrgType, SurveyType
<1>2. QED
  BY <1>1, SameRest, Lengths DEF Keeps

LEMMA NewUserType ==
    ASSUME Sound, NEW m \in MsgType, m.cf \in Cfs, m.email \in Emails,
           NEW a \in 0..Len(org), NEW b \in 0..Len(org)
    PROVE  /\ NewUser(m, a, b) \in UserType /\ NewUser(m, a, b).cf = m.cf
           /\ NewUser(m, a, b).main = a /\ NewUser(m, a, b).email = m.email
  BY DEF NewUser, UserType

LEMMA NewProfileSound ==
    ASSUME Sound, NEW h \in Slots, NewProfile(h)
    PROVE  Sound'
<1>1. work[h].at = "newprofile" /\ UNCHANGED <<queue, org, survey, last, bounds, history>> /\ Done(h)
  BY DEF NewProfile
<1>2. PICK r : r = NewUser(work[h].msg, 0, 0)
  OBVIOUS
<1>3. r \in UserType /\ user' = Append(user, r)
  <2>1. work[h].msg \in MsgType /\ work[h].msg.cf \in Cfs /\ work[h].msg.email \in Emails
    BY <1>1, AtHand DEF FitsIn, Profiling
  <2>2. 0 \in 0..Len(org)
    BY Lengths
  <2>3. QED
    BY <1>2, <2>1, <2>2, NewUserType DEF NewProfile
<1>4. user \in Seq(UserType)
  BY DEF Sound, RowsOK
<1>5. /\ user' \in Seq(UserType) /\ Len(user) <= Len(user')
      /\ \A n \in 1..Len(user) : user'[n].cf \in {user[n].cf, "none"}
  BY <1>3, <1>4
<1>6. QED
  BY <1>1, <1>5, UsersChange, DoneSound

\* Some rows are rewritten in place.
LEMMA RowsRewritten ==
    ASSUME Sound, user' = [n \in 1..Len(user) |-> user'[n]],
           \A n \in 1..Len(user) : user'[n] \in UserType /\ user'[n].cf \in {user[n].cf, "none"}
    PROVE  /\ user' \in Seq(UserType) /\ Len(user) <= Len(user') /\ Len(user') = Len(user)
           /\ \A n \in 1..Len(user) : user'[n].cf \in {user[n].cf, "none"}
<1>1. Len(user) \in Nat
  BY Lengths
<1>2. user' \in [1..Len(user) -> UserType]
  OBVIOUS
<1>3. user' \in Seq(UserType) /\ Len(user') = Len(user)
  BY <1>1, <1>2, SeqDef, LenProperties
<1>4. QED
  BY <1>1, <1>3

LEMMA UserFields ==
    ASSUME Sound, NEW n \in 1..Len(user)
    PROVE  /\ user[n] \in UserType /\ user[n].cf \in Cfs \cup {"none"} /\ user[n].email \in Emails
           /\ user[n].main \in 0..Len(org) /\ user[n].sub \in 0..Len(org)
<1>1. user \in Seq(UserType)
  BY DEF Sound, RowsOK
<1>2. user[n] \in UserType
  BY <1>1, Lengths
<1>3. QED
  BY <1>2 DEF UserType

LEMMA SetProfileSound ==
    ASSUME Sound, NEW h \in Slots, SetProfile(h)
    PROVE  Sound'
<1>1. work[h].at = "setprofile" /\ UNCHANGED <<queue, org, survey, last, bounds, history>> /\ Done(h)
  BY DEF SetProfile
<1>2. PICK e : e = work[h].msg.email
  OBVIOUS
<1>3. e \in Emails
  BY <1>1, <1>2, AtHand DEF FitsIn, Profiling
<1>4. PICK f : f = [n \in 1..Len(user) |-> [user[n] EXCEPT !.email = e]]
  OBVIOUS
<1>5. \A n \in 1..Len(user) : f[n] \in UserType /\ f[n].cf = user[n].cf
  BY <1>3, <1>4, UserFields DEF UserType
<1>6. user' = [n \in 1..Len(user) |-> IF n \in RowsOf(work[h].msg.cf) THEN f[n] ELSE user[n]]
  BY <1>2, <1>4 DEF SetProfile
<1>7. user' \in Seq(UserType) /\ Len(user) <= Len(user')
      /\ \A n \in 1..Len(user) : user'[n].cf \in {user[n].cf, "none"}
  BY <1>5, <1>6, UserFields, RowsRewritten
<1>8. QED
  BY <1>1, <1>7, UsersChange, DoneSound

LEMMA DeactivateSound ==
    ASSUME Sound, NEW h \in Slots, Deactivate(h)
    PROVE  Sound'
<1>1. UNCHANGED <<queue, org, survey, last, bounds, history>> /\ Done(h)
  BY DEF Deactivate
<1>2. PICK f : f = [n \in 1..Len(user) |-> [user[n] EXCEPT !.active = FALSE]]
  OBVIOUS
<1>3. \A n \in 1..Len(user) : f[n] \in UserType /\ f[n].cf = user[n].cf
  BY <1>2, UserFields DEF UserType
<1>4. user' = [n \in 1..Len(user) |-> IF n \in RowsOf(work[h].msg.cf) THEN f[n] ELSE user[n]]
  BY <1>2 DEF Deactivate
<1>5. user' \in Seq(UserType) /\ Len(user) <= Len(user')
      /\ \A n \in 1..Len(user) : user'[n].cf \in {user[n].cf, "none"}
  BY <1>3, <1>4, UserFields, RowsRewritten
<1>6. QED
  BY <1>1, <1>5, UsersChange, DoneSound

LEMMA DestroySound ==
    ASSUME Sound, NEW h \in Slots, Destroy(h)
    PROVE  Sound'
<1>1. UNCHANGED <<queue, org, survey, last, bounds, history>> /\ Done(h)
  BY DEF Destroy
<1>2. PICK f : f = [n \in 1..Len(user) |-> [user[n] EXCEPT !.cf = "none"]]
  OBVIOUS
<1>3. \A n \in 1..Len(user) : f[n] \in UserType /\ f[n].cf = "none"
  BY <1>2, UserFields DEF UserType
<1>4. user' = [n \in 1..Len(user) |-> IF n \in RowsOf(work[h].msg.cf) THEN f[n] ELSE user[n]]
  BY <1>2 DEF Destroy
<1>5. user' \in Seq(UserType) /\ Len(user) <= Len(user')
      /\ \A n \in 1..Len(user) : user'[n].cf \in {user[n].cf, "none"}
  BY <1>3, <1>4, UserFields, RowsRewritten
<1>6. QED
  BY <1>1, <1>5, UsersChange, DoneSound

-----------------------------------------------------------------------------
(* Types: synchronizeUserDetails()                                           *)

\* What fits is still fit among more rows.
LEMMA MoreRows ==
    ASSUME Sound, RowsOK', Keeps
    PROVE  /\ WorkType \subseteq WorkType'
           /\ Len(user') \in Nat /\ Len(org') \in Nat /\ Len(survey') \in Nat
<1>1. /\ Len(user) \in Nat /\ Len(org) \in Nat /\ Len(survey) \in Nat
      /\ Len(user') \in Nat /\ Len(org') \in Nat /\ Len(survey') \in Nat
  BY Lengths DEF RowsOK
<1>2. ASSUME NEW x \in WorkType
      PROVE  x \in WorkType'
  <2>1. /\ x.main \in 0..Len(org') /\ x.sub \in 0..Len(org')
        /\ x.row \in 0..(Len(user') + Len(survey')) /\ x.twins \subseteq 1..Len(survey')
    BY <1>1 DEF Keeps, WorkType
  <2>2. QED
    BY <2>1 DEF WorkType
<1>3. QED
  BY <1>1, <1>2

LEMMA OrgOfTypes ==
    ASSUME Sound, NEW code
    PROVE  /\ OrgOf(code) \in 0..Len(org)
           /\ OrgOf(code) # 0 => org[OrgOf(code)].code = code
           /\ OrgOf(code) = 0 => \A n \in 1..Len(org) : org[n].code # code
<1>1. PICK S : S = {n \in 1..Len(org) : org[n].code = code}
  OBVIOUS
<1>2. S \in SUBSET (1 .. Len(org)) /\ Len(org) \in Nat /\ OrgOf(code) = First(S)
  BY <1>1, Lengths DEF OrgOf
<1>3. /\ S = {} => First(S) = 0
      /\ S # {} => First(S) \in S
      /\ First(S) \in 0..Len(org)
  BY <1>2, FirstOf
<1>4. QED
  BY <1>1, <1>2, <1>3

LEMMA FindOrgSound ==
    ASSUME Sound, NEW h \in Slots, FindOrg(h)
    PROVE  Sound'
<1>1. UNCHANGED <<queue, rows, last, bounds, history>> /\ work[h].at = "org"
  BY DEF FindOrg
<1>2. PICK o : o = OrgOf("main")
  OBVIOUS
<1>3. PICK x : x = [work[h] EXCEPT !.main = o, !.at = IF o = 0 THEN "neworg" ELSE "defaults"]
  OBVIOUS
<1>4. Goes(h, x)
  BY <1>2, <1>3 DEF FindOrg
<1>5. o \in 0..Len(org)
  BY <1>2, OrgOfTypes
<1>6. /\ x \in WorkType /\ x.at = (IF o = 0 THEN "neworg" ELSE "defaults") /\ x.main = o
      /\ x.msg = work[h].msg /\ x.twins = work[h].twins
  BY <1>3, <1>5, AtHand DEF WorkType, Steps
<1>7. FitsIn(x, user, survey) /\ x.at # "parts"
  BY <1>1, <1>6, AtHand DEF FitsIn, Profiling, Deleting, Sync
<1>8. RestOK'
  BY <1>1, SameRest
<1>9. QED
  BY <1>1, <1>4, <1>6, <1>7, <1>8, ReadSound

\* An organization is added.
LEMMA OrgsGrow ==
    ASSUME Sound, UNCHANGED <<queue, user, survey, last, bounds, history>>,
           NEW r \in OrgType, org' = Append(org, r)
    PROVE  /\ RowsOK' /\ RestOK' /\ Keeps
           /\ \A k \in 1..Len(survey) : survey'[k].parts = survey[k].parts
           /\ Len(org') = Len(org) + 1 /\ org'[Len(org) + 1] = r
<1>1. user \in Seq(UserType) /\ org \in Seq(OrgType) /\ survey \in Seq(SurveyType)
  BY DEF Sound, RowsOK
<1>2. /\ Len(org') = Len(org) + 1 /\ org'[Len(org) + 1] = r
      /\ \A n \in 1..Len(org) : org'[n] = org[n]
  BY <1>1
<1>3. UserType \subseteq UserType' /\ OrgType \subseteq OrgType' /\ SurveyType \subseteq SurveyType'
  <2>1. 0..Len(org) \subseteq 0..Len(org') /\ 1..Len(org) \subseteq 1..Len(org')
    BY <1>2, Lengths
  <2>2. QED
    BY <2>1 DEF UserType, OrgType, SurveyType
<1>4. user' \in Seq(UserType') /\ survey' \in Seq(SurveyType')
  BY <1>1, <1>3
<1>5. org' \in Seq(OrgType')
  BY <1>1, <1>3
<1>6. RowsOK'
  BY <1>4, <1>5 DEF Sound, RowsOK
<1>7. QED
  BY <1>2, <1>6, SameRest, Lengths DEF Keeps

LEMMA CreateOrgSound ==
    ASSUME Sound, NEW h \in Slots, CreateOrg(h)
    PROVE  Sound'
<1>1. work[h].at = "neworg" /\ UNCHANGED <<queue, user, survey, last, bounds, history>>
  BY DEF CreateOrg
<1>2. PICK r : r = [code |-> "main", parent |-> 0]
  OBVIOUS
<1>3. r \in OrgType /\ org' = Append(org, r)
  BY <1>2, Lengths DEF CreateOrg, OrgType
<1>4. /\ RowsOK' /\ RestOK' /\ Keeps
      /\ \A k \in 1..Len(survey) : survey'[k].parts = survey[k].parts
      /\ Len(org') = Len(org) + 1
  BY <1>1, <1>3, OrgsGrow
<1>5. PICK x : x = [work[h] EXCEPT !.main = Len(org) + 1, !.at = "defaults"]
  OBVIOUS
<1>6. Goes(h, x)
  BY <1>5 DEF CreateOrg
<1>7. work[h] \in WorkType' /\ Len(org) + 1 \in 0..Len(org') /\ Len(org) + 1 # 0
  BY <1>4, MoreRows, AtHand, Lengths
<1>8. x \in WorkType' /\ x.at = "defaults" /\ x.main # 0 /\ x.msg = work[h].msg /\ x.twins = work[h].twins
  BY <1>5, <1>7 DEF WorkType, Steps
<1>9. FitsIn(x, user', survey')
  BY <1>1, <1>8, AtHand DEF FitsIn, Profiling, Deleting, Sync
<1>10. QED
  BY <1>4, <1>6, <1>8, <1>9, HandlerSound

LEMMA AfterOrgIs ==
    ASSUME NEW h \in Slots
    PROVE  /\ AfterOrg(h) \in {"sub", "user"}
           /\ AfterOrg(h) = "sub" => "sub" \in work[h].msg.given
  BY DEF AfterOrg

LEMMA FindDefaultsSound ==
    ASSUME Sound, NEW h \in Slots, FindDefaults(h)
    PROVE  Sound'
<1>1. UNCHANGED <<queue, rows, last, bounds, history>> /\ work[h].at = "defaults"
  BY DEF FindDefaults
<1>2. PICK S : S = Defaults(work[h].main)
  OBVIOUS
<1>3. PICK T : T = S \ {First(S)}
  OBVIOUS
<1>4. PICK l : l = IF S = {} THEN "survey" ELSE IF Cardinality(S) > 1 THEN "dedupe" ELSE AfterOrg(h)
  OBVIOUS
<1>5. PICK x : x = [work[h] EXCEPT !.twins = T, !.at = l]
  OBVIOUS
<1>6. Goes(h, x)
  BY <1>2, <1>3, <1>4, <1>5 DEF FindDefaults
<1>7. T \subseteq 1..Len(survey) /\ \A k \in T : survey[k].flagged
  BY <1>2, <1>3 DEF Defaults
<1>8. l \in {"survey", "dedupe", "sub", "user"} /\ (l = "sub" => "sub" \in work[h].msg.given)
  BY <1>4, AfterOrgIs
<1>9. x \in WorkType /\ x.at = l /\ x.main = work[h].main /\ x.msg = work[h].msg /\ x.twins = T
  BY <1>5, <1>7, <1>8, AtHand DEF WorkType, Steps
<1>10. FitsIn(x, user, survey) /\ x.at # "parts"
  BY <1>1, <1>7, <1>8, <1>9, AtHand DEF FitsIn, Profiling, Deleting, Sync
<1>11. RestOK'
  BY <1>1, SameRest
<1>12. QED
  BY <1>1, <1>6, <1>9, <1>10, <1>11, ReadSound

LEMMA SurveyFields ==
    ASSUME Sound, NEW k \in 1..Len(survey)
    PROVE  /\ survey[k] \in SurveyType /\ survey[k].org \in 1..Len(org) /\ survey[k].flagged \in BOOLEAN
           /\ survey[k].deleted \in BOOLEAN /\ survey[k].parts \in 0..Parts
           /\ survey[k].flagged => survey[k].parts = Parts
<1>1. survey \in Seq(SurveyType)
  BY DEF Sound, RowsOK
<1>2. survey[k] \in SurveyType
  BY <1>1, Lengths
<1>3. QED
  BY <1>2 DEF SurveyType, Sound, RowsOK

\* Surveys are changed.
LEMMA SurveysChange ==
    ASSUME Sound, UNCHANGED <<queue, user, org, last, bounds, history>>,
           survey' \in Seq(SurveyType), Len(survey) <= Len(survey'),
           \A k \in 1..Len(survey) :
              /\ survey'[k].org = survey[k].org /\ survey'[k].flagged = survey[k].flagged
              /\ ~survey[k].flagged => survey'[k].deleted = survey[k].deleted,
           \A k \in 1..Len(survey') : survey'[k].flagged => survey'[k].parts = Parts
    PROVE  RowsOK' /\ RestOK' /\ Keeps
<1>1. RowsOK'
  BY DEF Sound, RowsOK, UserType, OrgType, SurveyType
<1>2. QED
  BY <1>1, SameRest, Lengths DEF Keeps

LEMMA SurveysRewritten ==
    ASSUME Sound, survey' = [k \in 1..Len(survey) |-> survey'[k]],
           \A k \in 1..Len(survey) : survey'[k] \in SurveyType
    PROVE  survey' \in Seq(SurveyType) /\ Len(survey') = Len(survey)
<1>1. Len(survey) \in Nat
  BY Lengths
<1>2. survey' \in [1..Len(survey) -> SurveyType]
  OBVIOUS
<1>3. QED
  BY <1>1, <1>2, SeqDef, LenProperties

LEMMA DedupeSound ==
    ASSUME Sound, NEW h \in Slots, Dedupe(h)
    PROVE  Sound'
<1>1. work[h].at = "dedupe" /\ UNCHANGED <<queue, user, org, last, bounds, history>>
  BY DEF Dedupe
<1>2. \A k \in 1..Len(survey) : survey'[k] = IF k \in work[h].twins
                                             THEN [survey[k] EXCEPT !.deleted = TRUE] ELSE survey[k]
  BY DEF Dedupe
<1>3. survey' = [k \in 1..Len(survey) |-> survey'[k]]
  BY DEF Dedupe
<1>4. ASSUME NEW k \in 1..Len(survey)
      PROVE  /\ survey'[k] \in SurveyType /\ survey'[k].org = survey[k].org
             /\ survey'[k].flagged = survey[k].flagged /\ survey'[k].parts = survey[k].parts
             /\ ~survey[k].flagged => survey'[k].deleted = survey[k].deleted
  <2>1. survey[k] \in SurveyType
    BY SurveyFields
  <2>2. PICK d : d = [survey[k] EXCEPT !.deleted = TRUE]
    OBVIOUS
  <2>3. d \in SurveyType /\ d.org = survey[k].org /\ d.flagged = survey[k].flagged /\ d.parts = survey[k].parts
    BY <2>1, <2>2 DEF SurveyType
  <2>4. k \in work[h].twins => survey[k].flagged
    BY AtHand DEF FitsIn
  <2>5. survey'[k] = IF k \in work[h].twins THEN d ELSE survey[k]
    BY <1>2, <2>2
  <2>6. QED
    BY <2>1, <2>3, <2>4, <2>5
<1>5. survey' \in Seq(SurveyType) /\ Len(survey') = Len(survey)
  BY <1>3, <1>4, SurveysRewritten
<1>6. \A k \in 1..Len(survey') : survey'[k].flagged => survey'[k].parts = Parts
  BY <1>4, <1>5, SurveyFields
<1>7. RowsOK' /\ RestOK' /\ Keeps
  <2>1. Len(survey) <= Len(survey')
    BY <1>5, Lengths
  <2>2. QED
    BY <1>1, <1>4, <1>5, <1>6, <2>1, SurveysChange
<1>8. PICK x : x = [work[h] EXCEPT !.at = AfterOrg(h), !.twins = {}]
  OBVIOUS
<1>9. Goes(h, x)
  BY <1>8 DEF Dedupe
<1>10. AfterOrg(h) \in {"sub", "user"} /\ (AfterOrg(h) = "sub" => "sub" \in work[h].msg.given)
  BY AfterOrgIs
<1>11. x \in WorkType /\ x.at = AfterOrg(h) /\ x.msg = work[h].msg /\ x.twins = {}
  BY <1>8, <1>10, AtHand DEF WorkType, Steps
<1>12. FitsIn(x, user', survey') /\ x.at # "parts"
  BY <1>1, <1>10, <1>11, AtHand DEF FitsIn, Profiling, Deleting, Sync
<1>13. x \in WorkType'
  BY <1>7, <1>11, MoreRows
<1>14. QED
  BY <1>4, <1>7, <1>9, <1>12, <1>13, HandlerSound

LEMMA CreateSurveySound ==
    ASSUME Sound, NEW h \in Slots, CreateSurvey(h)
    PROVE  Sound'
<1>1. work[h].at = "survey" /\ UNCHANGED <<queue, user, org, last, bounds, history>>
  BY DEF CreateSurvey
<1>2. PICK r : r = [org |-> work[h].main, flagged |-> FALSE, deleted |-> FALSE, parts |-> 0]
  OBVIOUS
<1>3. /\ r.org = work[h].main /\ ~r.flagged /\ ~r.deleted /\ r.parts = 0
  BY <1>2
<1>4. r \in SurveyType
  <2>1. work[h].main \in 1..Len(org)
    BY <1>1, AtHand, Lengths DEF FitsIn
  <2>2. 0 \in 0..Parts
    BY ConstantsAssumption
  <2>3. QED
    BY <1>2, <2>1, <2>2 DEF SurveyType
<1>5. survey \in Seq(SurveyType) /\ survey' = Append(survey, r) /\ Len(survey) \in Nat
  BY <1>2, Lengths DEF CreateSurvey, Sound, RowsOK
<1>6. /\ survey' \in Seq(SurveyType) /\ Len(survey') = Len(survey) + 1 /\ survey'[Len(survey) + 1] = r
      /\ \A k \in 1..Len(survey) : survey'[k] = survey[k]
  BY <1>4, <1>5
<1>7. \A k \in 1..Len(survey') : survey'[k].flagged => survey'[k].parts = Parts
  BY <1>3, <1>5, <1>6, SurveyFields
<1>8. RowsOK' /\ RestOK' /\ Keeps
  <2>1. Len(survey) <= Len(survey')
    BY <1>5, <1>6
  <2>2. QED
    BY <1>1, <1>6, <1>7, <2>1, SurveysChange
<1>9. PICK n : n = Len(survey) + 1
  OBVIOUS
<1>10. PICK x : x = [work[h] EXCEPT !.at = "parts", !.row = n]
  OBVIOUS
<1>11. Goes(h, x)
  BY <1>9, <1>10 DEF CreateSurvey
<1>12. work[h] \in WorkType' /\ n \in 0..(Len(user') + Len(survey')) /\ n \in 1..Len(survey')
  BY <1>5, <1>6, <1>8, <1>9, MoreRows, AtHand
<1>13. /\ x \in WorkType' /\ x.at = "parts" /\ x.row = n /\ x.main = work[h].main
       /\ x.msg = work[h].msg /\ x.twins = work[h].twins
  BY <1>10, <1>12 DEF WorkType, Steps
<1>14. FitsIn(x, user', survey')
  <2>1. /\ x.row \in 1..Len(survey') /\ survey'[x.row].org = x.main
        /\ ~survey'[x.row].flagged /\ ~survey'[x.row].deleted /\ survey'[x.row].parts < Parts
    BY <1>3, <1>6, <1>9, <1>12, <1>13, ConstantsAssumption
  <2>2. \A k \in x.twins : survey'[k].flagged
    BY <1>6, <1>13, AtHand DEF FitsIn
  <2>3. QED
    BY <1>1, <1>13, <2>1, <2>2, AtHand DEF FitsIn, Profiling, Deleting, Sync
<1>15. /\ work' = [g \in Slots |-> work'[g]] /\ work'[h] = x
       /\ \A g \in Slots \ {h} : work'[g] = work[g]
  BY <1>11, OneGoes
<1>16. \A g \in Slots : work[g].at = "parts" => work[g].row \in 1..Len(survey)
  BY AtHand DEF FitsIn
<1>17. OneWriter'
  BY <1>5, <1>9, <1>13, <1>15, <1>16 DEF OneWriter, Sound, WorkOK
<1>18. \A g \in Slots :
          \/ /\ work'[g] = work[g]
             /\ work[g].at = "parts" => survey'[work[g].row].parts = survey[work[g].row].parts
          \/ work'[g] \in WorkType' /\ FitsIn(work'[g], user', survey')
  BY <1>6, <1>13, <1>14, <1>15, <1>16
<1>19. QED
  BY <1>8, <1>15, <1>17, <1>18, StepSound

LEMMA CreatePartSound ==
    ASSUME Sound, NEW h \in Slots, CreatePart(h)
    PROVE  Sound'
<1>1. work[h].at = "parts" /\ UNCHANGED <<queue, user, org, last, bounds, history>>
  BY DEF CreatePart
<1>2. PICK k : k = work[h].row
  OBVIOUS
<1>3. /\ k \in 1..Len(survey) /\ survey[k].org = work[h].main
      /\ ~survey[k].flagged /\ ~survey[k].deleted /\ survey[k].parts < Parts
  BY <1>1, <1>2, AtHand DEF FitsIn
<1>4. PICK r : r = [survey[k] EXCEPT !.parts = survey[k].parts + 1]
  OBVIOUS
<1>5. /\ r \in SurveyType /\ r.org = survey[k].org /\ r.flagged = survey[k].flagged
      /\ r.deleted = survey[k].deleted /\ r.parts = survey[k].parts + 1
  <2>1. survey[k] \in SurveyType /\ survey[k].parts \in 0..Parts /\ Parts \in Nat
    BY <1>3, SurveyFields, ConstantsAssumption
  <2>2. survey[k].parts + 1 \in 0..Parts
    BY <1>3, <2>1
  <2>3. QED
    BY <1>4, <2>1, <2>2 DEF SurveyType
<1>6. survey' = [survey EXCEPT ![k] = r]
  BY <1>2, <1>4 DEF CreatePart
<1>7. survey \in Seq(SurveyType)
  BY DEF Sound, RowsOK
<1>8. /\ survey' \in Seq(SurveyType) /\ Len(survey') = Len(survey) /\ survey'[k] = r
      /\ \A j \in 1..Len(survey) : j # k => survey'[j] = survey[j]
  BY <1>3, <1>5, <1>6, <1>7
<1>9. \A j \in 1..Len(survey) :
          /\ survey'[j].org = survey[j].org /\ survey'[j].flagged = survey[j].flagged
          /\ survey'[j].deleted = survey[j].deleted
  BY <1>5, <1>8
<1>10. \A j \in 1..Len(survey') : survey'[j].flagged => survey'[j].parts = Parts
  BY <1>3, <1>5, <1>8, SurveyFields
<1>11. RowsOK' /\ RestOK' /\ Keeps
  <2>1. Len(survey) <= Len(survey')
    BY <1>8, Lengths
  <2>2. QED
    BY <1>1, <1>8, <1>9, <1>10, <2>1, SurveysChange
<1>12. work[h] \in WorkType'
  BY <1>11, AtHand, MoreRows
<1>13. PICK x : x = IF survey[k].parts + 1 < Parts THEN work[h]
                   ELSE [work[h] EXCEPT !.at = AfterOrg(h), !.row = 0]
  OBVIOUS
<1>14. Goes(h, x)
  BY <1>2, <1>13 DEF CreatePart
<1>15. AfterOrg(h) \in {"sub", "user"} /\ (AfterOrg(h) = "sub" => "sub" \in work[h].msg.given)
  BY AfterOrgIs
<1>16. \A j \in work[h].twins : survey'[j].flagged
  BY <1>9, AtHand DEF FitsIn
<1>17. x \in WorkType' /\ FitsIn(x, user', survey') /\ (x.at = "parts" => x.row = k)
  <2>1. CASE survey[k].parts + 1 < Parts
    <3>1. x = work[h]
      BY <1>13, <2>1
    <3>2. /\ x.row \in 1..Len(survey') /\ survey'[x.row].org = x.main
          /\ ~survey'[x.row].flagged /\ ~survey'[x.row].deleted /\ survey'[x.row].parts < Parts
      BY <1>2, <1>3, <1>5, <1>8, <2>1, <3>1
    <3>3. FitsIn(x, user', survey')
      BY <1>1, <1>16, <3>1, <3>2, AtHand DEF FitsIn, Profiling, Deleting, Sync
    <3>4. QED
      BY <1>2, <1>12, <3>1, <3>3
  <2>2. CASE ~(survey[k].parts + 1 < Parts)
    <3>1. x = [work[h] EXCEPT !.at = AfterOrg(h), !.row = 0]
      BY <1>13, <2>2
    <3>2. 0 \in 0..(Len(user') + Len(survey'))
      BY <1>11, MoreRows
    <3>3. x \in WorkType' /\ x.at = AfterOrg(h) /\ x.msg = work[h].msg /\ x.twins = work[h].twins
      BY <1>12, <1>15, <3>1, <3>2 DEF WorkType, Steps
    <3>4. FitsIn(x, user', survey')
      BY <1>1, <1>15, <1>16, <3>3, AtHand DEF FitsIn, Profiling, Deleting, Sync
    <3>5. QED
      BY <1>15, <3>3, <3>4
  <2>3. QED
    BY <2>1, <2>2
<1>18. /\ work' = [g \in Slots |-> work'[g]] /\ work'[h] = x
       /\ \A g \in Slots \ {h} : work'[g] = work[g]
  BY <1>14, OneGoes
<1>19. \A g \in Slots : work[g].at = "parts" => work[g].row \in 1..Len(survey)
  BY AtHand DEF FitsIn
<1>20. \A g \in Slots \ {h} : work[g].at = "parts" => work[g].row # k
  BY <1>1, <1>2 DEF OneWriter, Sound, WorkOK
<1>21. OneWriter'
  BY <1>17, <1>18, <1>20 DEF OneWriter, Sound, WorkOK
<1>22. \A g \in Slots :
          \/ /\ work'[g] = work[g]
             /\ work[g].at = "parts" => survey'[work[g].row].parts = survey[work[g].row].parts
          \/ work'[g] \in WorkType' /\ FitsIn(work'[g], user', survey')
  BY <1>8, <1>17, <1>18, <1>19, <1>20
<1>23. QED
  BY <1>11, <1>18, <1>21, <1>22, StepSound

LEMMA FindSubSound ==
    ASSUME Sound, NEW h \in Slots, FindSub(h)
    PROVE  Sound'
<1>1. UNCHANGED <<queue, rows, last, bounds, history>> /\ work[h].at = "sub"
  BY DEF FindSub
<1>2. PICK o : o = OrgOf("sub")
  OBVIOUS
<1>3. PICK x : x = [work[h] EXCEPT !.sub = o, !.at = IF o = 0 THEN "newsub" ELSE "user"]
  OBVIOUS
<1>4. Goes(h, x)
  BY <1>2, <1>3 DEF FindSub
<1>5. o \in 0..Len(org)
  BY <1>2, OrgOfTypes
<1>6. /\ x \in WorkType /\ x.at = (IF o = 0 THEN "newsub" ELSE "user") /\ x.sub = o
      /\ x.msg = work[h].msg /\ x.twins = work[h].twins
  BY <1>3, <1>5, AtHand DEF WorkType, Steps
<1>7. FitsIn(x, user, survey) /\ x.at # "parts"
  BY <1>1, <1>6, AtHand DEF FitsIn, Profiling, Deleting, Sync
<1>8. RestOK'
  BY <1>1, SameRest
<1>9. QED
  BY <1>1, <1>4, <1>6, <1>7, <1>8, ReadSound

LEMMA CreateSubSound ==
    ASSUME Sound, NEW h \in Slots, CreateSub(h)
    PROVE  Sound'
<1>1. work[h].at = "newsub" /\ UNCHANGED <<queue, user, survey, last, bounds, history>>
  BY DEF CreateSub
<1>2. PICK r : r = [code |-> "sub", parent |-> work[h].main]
  OBVIOUS
<1>3. r \in OrgType /\ org' = Append(org, r)
  BY <1>2, AtHand DEF CreateSub, OrgType
<1>4. /\ RowsOK' /\ RestOK' /\ Keeps
      /\ \A k \in 1..Len(survey) : survey'[k].parts = survey[k].parts
      /\ Len(org') = Len(org) + 1
  BY <1>1, <1>3, OrgsGrow
<1>5. PICK x : x = [work[h] EXCEPT !.sub = Len(org) + 1, !.at = "user"]
  OBVIOUS
<1>6. Goes(h, x)
  BY <1>5 DEF CreateSub
<1>7. work[h] \in WorkType' /\ Len(org) + 1 \in 0..Len(org')
  BY <1>4, MoreRows, AtHand, Lengths
<1>8. x \in WorkType' /\ x.at = "user" /\ x.msg = work[h].msg /\ x.twins = work[h].twins
  BY <1>5, <1>7 DEF WorkType, Steps
<1>9. FitsIn(x, user', survey')
  BY <1>1, <1>8, AtHand DEF FitsIn, Profiling, Deleting, Sync
<1>10. QED
  BY <1>4, <1>6, <1>8, <1>9, HandlerSound

LEMMA FindUserIs ==
    ASSUME Sound, NEW m
    PROVE  /\ FindUser(m) \in 0..Len(user)
           /\ FindUser(m) # 0 => FindUser(m) \in RowsOf(m.cf) /\ user[FindUser(m)].email = m.email
           /\ FindUser(m) = 0 => \A n \in RowsOf(m.cf) : user[n].email # m.email
<1>1. PICK S : S = {n \in RowsOf(m.cf) : user[n].email = m.email}
  OBVIOUS
<1>2. S \in SUBSET (1 .. Len(user)) /\ Len(user) \in Nat /\ FindUser(m) = First(S)
  BY <1>1, Lengths DEF FindUser, RowsOf
<1>3. /\ S = {} => First(S) = 0
      /\ S # {} => First(S) \in S
      /\ First(S) \in 0..Len(user)
  BY <1>2, FirstOf
<1>4. QED
  BY <1>1, <1>2, <1>3

LEMMA FindRowSound ==
    ASSUME Sound, NEW h \in Slots, FindRow(h)
    PROVE  Sound'
<1>1. UNCHANGED <<queue, rows, last, bounds, history>> /\ work[h].at = "user"
  BY DEF FindRow
<1>2. PICK n : n = FindUser(work[h].msg)
  OBVIOUS
<1>3. PICK x : x = [work[h] EXCEPT !.row = n, !.at = IF n = 0 THEN "adduser" ELSE "setuser"]
  OBVIOUS
<1>4. Goes(h, x)
  BY <1>2, <1>3 DEF FindRow
<1>5. n \in 0..Len(user) /\ (n # 0 => n \in 1..Len(user) /\ user[n].cf = work[h].msg.cf)
  BY <1>2, FindUserIs DEF RowsOf
<1>6. n \in 0..(Len(user) + Len(survey))
  BY <1>5, Lengths
<1>7. /\ x \in WorkType /\ x.at = (IF n = 0 THEN "adduser" ELSE "setuser") /\ x.row = n
      /\ x.msg = work[h].msg /\ x.twins = work[h].twins
  BY <1>3, <1>6, AtHand DEF WorkType, Steps
<1>8. FitsIn(x, user, survey) /\ x.at # "parts"
  BY <1>1, <1>5, <1>7, AtHand DEF FitsIn, Profiling, Deleting, Sync
<1>9. RestOK'
  BY <1>1, SameRest
<1>10. QED
  BY <1>1, <1>4, <1>7, <1>8, <1>9, ReadSound

LEMMA SyncedUser ==
    ASSUME Sound, NEW h \in Slots, work[h].at \in {"adduser", "setuser"},
           NEW r, r = NewUser(work[h].msg, work[h].main, work[h].sub)
    PROVE  r \in UserType /\ r.cf = work[h].msg.cf /\ r.email = work[h].msg.email /\ r.main = work[h].main
<1>1. work[h].msg \in MsgType /\ work[h].msg.cf \in Cfs /\ work[h].msg.email \in Emails
  BY AtHand DEF FitsIn, Sync
<1>2. work[h].main \in 0..Len(org) /\ work[h].sub \in 0..Len(org)
  BY AtHand
<1>3. QED
  BY <1>1, <1>2, NewUserType

LEMMA AddUserSound ==
    ASSUME Sound, NEW h \in Slots, AddUser(h)
    PROVE  Sound'
<1>1. work[h].at = "adduser" /\ UNCHANGED <<queue, org, survey, last, bounds, history>> /\ Done(h)
  BY DEF AddUser
<1>2. PICK r : r = NewUser(work[h].msg, work[h].main, work[h].sub)
  OBVIOUS
<1>3. r \in UserType /\ user' = Append(user, r)
  BY <1>1, <1>2, SyncedUser DEF AddUser
<1>4. user \in Seq(UserType)
  BY DEF Sound, RowsOK
<1>5. /\ user' \in Seq(UserType) /\ Len(user) <= Len(user')
      /\ \A n \in 1..Len(user) : user'[n].cf \in {user[n].cf, "none"}
  BY <1>3, <1>4
<1>6. QED
  BY <1>1, <1>5, UsersChange, DoneSound

LEMMA SetUserSound ==
    ASSUME Sound, NEW h \in Slots, SetUser(h)
    PROVE  Sound'
<1>1. work[h].at = "setuser" /\ UNCHANGED <<queue, org, survey, last, bounds, history>> /\ At(h, "reread")
  BY DEF SetUser
<1>2. PICK r : r = NewUser(work[h].msg, work[h].main, work[h].sub)
  OBVIOUS
<1>3. r \in UserType /\ r.cf = work[h].msg.cf
  BY <1>1, <1>2, SyncedUser
<1>4. PICK n : n = work[h].row
  OBVIOUS
<1>5. n \in 1..Len(user) /\ user[n].cf \in {work[h].msg.cf, "none"}
  BY <1>1, <1>4, AtHand DEF FitsIn
<1>6. user' = user \/ (user[n].cf # "none" /\ user' = [user EXCEPT ![n] = r])
  BY <1>2, <1>4 DEF SetUser
<1>7. user \in Seq(UserType) /\ Len(user) \in Nat
  BY Lengths DEF Sound, RowsOK
<1>8. /\ user' \in Seq(UserType) /\ Len(user) <= Len(user')
      /\ \A j \in 1..Len(user) : user'[j].cf \in {user[j].cf, "none"}
  BY <1>3, <1>5, <1>6, <1>7
<1>9. RowsOK' /\ RestOK' /\ Keeps /\ \A k \in 1..Len(survey) : survey'[k].parts = survey[k].parts
  BY <1>1, <1>8, UsersChange
<1>10. PICK x : x = [work[h] EXCEPT !.at = "reread"]
  OBVIOUS
<1>11. "reread" \in Steps
  BY DEF Steps
<1>12. /\ x \in WorkType /\ x.at = "reread" /\ x.msg = work[h].msg /\ x.twins = work[h].twins
  BY <1>10, <1>11, AtFields
<1>13. FitsIn(x, user', survey')
  BY <1>1, <1>12, AtHand DEF FitsIn, Profiling, Deleting, Sync
<1>14. Goes(h, x) /\ x \in WorkType'
  BY <1>1, <1>9, <1>10, <1>12, MoreRows DEF At
<1>15. QED
  BY <1>9, <1>12, <1>13, <1>14, HandlerSound

LEMMA RereadSound ==
    ASSUME Sound, NEW h \in Slots, Reread(h)
    PROVE  Sound'
  BY SameRest, DoneReads DEF Reread

-----------------------------------------------------------------------------
(* Types: errors                                                             *)

LEMMA ExitSound ==
    ASSUME Sound, Exit, UNCHANGED rows, RestOK'
    PROVE  Sound'
<1>1. \A h \in Slots : work'[h] = Idle
  BY DEF Exit
<1>2. Idle \in WorkType /\ Idle.at = "idle" /\ Idle.twins = {}
  BY IdleFields
<1>3. UNCHANGED <<user, org, survey>> /\ WorkType' = WorkType /\ RowsOK'
  BY SameRows DEF rows
<1>4. work' \in [Slots -> WorkType']
  BY <1>2, <1>3 DEF Exit
<1>5. \A h \in Slots : FitsIn(work'[h], user', survey')
  BY <1>1, <1>2 DEF FitsIn, Profiling, Deleting, Sync
<1>6. OneWriter'
  BY <1>1, <1>2 DEF OneWriter
<1>7. QED
  BY <1>3, <1>4, <1>5, <1>6 DEF Sound, WorkOK

LEMMA BusyWorksFor ==
    ASSUME Sound, NEW h \in Slots, Busy(h)
    PROVE  work[h].msg.cf \in Cfs
  BY AtHand DEF FitsIn, Busy

LEMMA ExitRest ==
    ASSUME Sound, Exit, Faulty, UNCHANGED <<queue, last, messages, requests, overlapped, raced, moved, cut>>
    PROVE  RestOK'
<1>1. lost' \subseteq Cfs
  BY BusyWorksFor DEF Exit, Sound, RestOK
<1>2. faults' \in Nat
  BY DEF Faulty, Sound, RestOK
<1>3. QED
  BY <1>1, <1>2 DEF Sound, RestOK

LEMMA QueryFailsSound ==
    ASSUME Sound, NEW h \in Slots, QueryFails(h)
    PROVE  Sound'
<1>1. /\ Busy(h) /\ Faulty
      /\ UNCHANGED <<queue, rows, last, messages, requests, overlapped, raced, moved>>
  BY DEF QueryFails
<1>2. work[h].msg.cf \in Cfs /\ faults' \in Nat
  BY <1>1, BusyWorksFor DEF Faulty, Sound, RestOK
<1>3. ASSUME work[h].at \in {"sub", "newsub"}, At(h, "user"),
             cut' = cut \cup {work[h].msg.cf}, UNCHANGED lost
      PROVE  Sound'
  <2>1. RestOK'
    BY <1>1, <1>2, <1>3 DEF Sound, RestOK
  <2>2. PICK x : x = [work[h] EXCEPT !.at = "user"]
    OBVIOUS
  <2>3. "user" \in Steps
    BY DEF Steps
  <2>4. /\ x \in WorkType /\ x.at = "user" /\ x.msg = work[h].msg /\ x.twins = work[h].twins
    BY <2>2, <2>3, AtFields
  <2>5. FitsIn(x, user, survey)
    BY <1>3, <2>4, AtHand DEF FitsIn, Profiling, Deleting, Sync
  <2>6. Goes(h, x)
    BY <1>3, <2>2 DEF At
  <2>7. QED
    BY <1>1, <2>1, <2>4, <2>5, <2>6, ReadSound
<1>4. ASSUME Syncing(h), work[h].try > 1, UNCHANGED <<lost, cut>>,
             Goes(h, [Idle EXCEPT !.at = Begin(work[h].msg), !.msg = work[h].msg, !.try = work[h].try - 1])
      PROVE  Sound'
  <2>1. RestOK'
    BY <1>1, <1>2, <1>4 DEF Sound, RestOK
  <2>2. PICK m : m = work[h].msg
    OBVIOUS
  <2>3. PICK t : t = work[h].try - 1
    OBVIOUS
  <2>4. t \in 0..Tries
    BY <1>4, <2>3, AtHand, ConstantsAssumption
  <2>5. m \in MsgType /\ m.cf \in Cfs
    BY <1>2, <2>2, AtHand
  <2>6. m.kind \in {"sync", "visit"} /\ m.email \in Emails
    BY <1>1, <1>4, <2>2, AtHand DEF Syncing, FitsIn, Busy, Profiling, Deleting, Sync, Steps
  <2>7. PICK l : l = Begin(m)
    OBVIOUS
  <2>8. Fresh(m, l)
    BY <2>6, <2>7 DEF Fresh
  <2>9. PICK x : x = Start(m, l, t)
    OBVIOUS
  <2>10. Goes(h, x)
    BY <1>4, <2>2, <2>3, <2>7, <2>9 DEF Start
  <2>11. x \in WorkType /\ FitsIn(x, user, survey) /\ x.at # "parts"
    <3>1. /\ x \in WorkType /\ FitsIn(x, user, survey) /\ x.at \in {"seek", "profile", "remove", "erase", "org", "sub", "user"}
      BY <2>4, <2>5, <2>8, <2>9, FreshFits
    <3>2. QED
      BY <3>1
  <2>12. QED
    BY <1>1, <2>1, <2>10, <2>11, ReadSound
<1>5. ASSUME Done(h), lost' = lost \cup {work[h].msg.cf}, UNCHANGED cut
      PROVE  Sound'
  <2>1. RestOK'
    BY <1>1, <1>2, <1>5 DEF Sound, RestOK
  <2>2. QED
    BY <1>1, <1>5, <2>1, DoneReads
<1>6. ASSUME Exit, UNCHANGED cut
      PROVE  Sound'
  <2>1. RestOK'
    BY <1>1, <1>6, ExitRest
  <2>2. QED
    BY <1>1, <1>6, <2>1, ExitSound
<1>7. QED
  BY <1>3, <1>4, <1>5, <1>6 DEF QueryFails

LEMMA CrashSound ==
    ASSUME Sound, Crash
    PROVE  Sound'
<1>1. Exit /\ Faulty /\ UNCHANGED <<queue, rows, last, messages, requests, overlapped, raced, moved, cut>>
  BY DEF Crash
<1>2. QED
  BY <1>1, ExitRest, ExitSound

-----------------------------------------------------------------------------
(* Types: the whole                                                          *)

LEMMA InitSound ==
    ASSUME Init
    PROVE  Sound
<1>1. PICK n \in {0, Flagged} :
          /\ org = IF n = 0 THEN <<>> ELSE <<[code |-> "main", parent |-> 0]>>
          /\ survey = [k \in 1..n |-> [org |-> 1, flagged |-> TRUE, deleted |-> FALSE, parts |-> Parts]]
  BY DEF Init
<1>2. n \in Nat /\ Parts \in Nat
  BY ConstantsAssumption
<1>3. Len(survey) = n /\ user = <<>> /\ Len(user) = 0
  BY <1>1, <1>2 DEF Init
<1>4. org \in Seq(OrgType) /\ (n # 0 => Len(org) = 1) /\ Len(org) \in Nat
  <2>1. CASE n = 0
    BY <1>1, <2>1
  <2>2. CASE n # 0
    <3>1. PICK r : r = [code |-> "main", parent |-> 0]
      OBVIOUS
    <3>2. org = <<r>> /\ Len(org) = 1
      BY <1>1, <2>2, <3>1
    <3>3. r \in OrgType
      BY <3>1, <3>2 DEF OrgType
    <3>4. QED
      BY <3>2, <3>3
  <2>3. QED
    BY <2>1, <2>2
<1>5. /\ survey \in Seq(SurveyType)
      /\ \A k \in 1..Len(survey) : survey[k].flagged => survey[k].parts = Parts
  <2>1. ASSUME NEW k \in 1..n
        PROVE  survey[k] \in SurveyType /\ survey[k].parts = Parts
    <3>1. 1 \in 1..Len(org) /\ Parts \in 0..Parts
      BY <1>2, <1>4
    <3>2. survey[k] = [org |-> 1, flagged |-> TRUE, deleted |-> FALSE, parts |-> Parts]
      BY <1>1
    <3>3. QED
      BY <3>1, <3>2 DEF SurveyType
  <2>2. survey \in [1..n -> SurveyType]
    BY <1>1, <2>1
  <2>3. survey \in Seq(SurveyType)
    BY <1>2, <2>2, SeqDef
  <2>4. QED
    BY <1>3, <2>1, <2>3
<1>6. RowsOK
  BY <1>3, <1>4, <1>5 DEF RowsOK
<1>7. RestOK
  <2>1. last \in [Cfs -> Messages \cup {NoMessage}]
    BY DEF Init
  <2>2. \A c \in Cfs : last[c].kind = "none"
    BY DEF Init, NoMessage
  <2>3. QED
    BY <2>1, <2>2 DEF Init, RestOK
<1>8. \A h \in Slots : work[h] = Idle
  BY DEF Init
<1>9. Idle \in WorkType /\ Idle.at = "idle" /\ Idle.twins = {}
  <2>1. NoMessage \in MsgType
    BY DEF NoMessage, MsgType
  <2>2. /\ 0 \in 0..Tries /\ 0 \in 0..Len(org) /\ 0 \in 0..(Len(user) + Len(survey)) /\ {} \in SUBSET (1..Len(survey))
    BY <1>2, <1>3, <1>4, ConstantsAssumption
  <2>3. QED
    BY <2>1, <2>2 DEF Idle, WorkType, Steps
<1>10. WorkOK
  <2>1. work \in [Slots -> WorkType]
    BY <1>9 DEF Init
  <2>2. \A h \in Slots : FitsIn(work[h], user, survey)
    BY <1>8, <1>9 DEF FitsIn, Profiling, Deleting, Sync
  <2>3. OneWriter
    BY <1>8, <1>9 DEF OneWriter
  <2>4. QED
    BY <2>1, <2>2, <2>3 DEF WorkOK
<1>11. QED
  BY <1>6, <1>7, <1>10 DEF Sound

LEMMA StutterSound ==
    ASSUME Sound, UNCHANGED vars
    PROVE  Sound'
<1>1. UNCHANGED <<queue, work, user, org, survey, last, messages, requests, faults,
                  overlapped, raced, lost, moved, cut>>
  BY DEF vars, rows, bounds, history
<1>2. RowsOK' /\ WorkType' = WorkType
  BY <1>1, SameRows DEF rows
<1>3. RestOK'
  BY <1>1 DEF Sound, RestOK
<1>4. WorkOK'
  BY <1>1, <1>2 DEF Sound, WorkOK, OneWriter
<1>5. QED
  BY <1>2, <1>3, <1>4 DEF Sound

LEMMA NextSound ==
    ASSUME Sound, [Next]_vars
    PROVE  Sound'
<1>1. ASSUME NEW h \in Slots, HandlerStep(h)
      PROVE  Sound'
  BY <1>1, SeekSound, FetchSound, ProfileSound, NewProfileSound, SetProfileSound, FindDeletedSound,
     DeactivateSound, DestroySound, FindOrgSound, CreateOrgSound, FindDefaultsSound, DedupeSound,
     CreateSurveySound, CreatePartSound, FindSubSound, CreateSubSound, FindRowSound, AddUserSound,
     SetUserSound, RereadSound DEF HandlerStep
<1>2. QED
  BY <1>1, AnnounceSound, DeliverSound, QueryFailsSound, VisitSound, EditSound, CrashSound, StutterSound
  DEF Next

\* In every state, whatever the ids, emails and bounds, the rows, the messages and what
\* the handlers have at hand are of their types.
THEOREM TypeCorrect == Spec => []TypeOK
<1>1. Init => Sound
  BY InitSound
<1>2. Sound /\ [Next]_vars => Sound'
  BY NextSound
<1>3. Sound => TypeOK
  BY SoundTypes
<1>4. QED
  BY <1>1, <1>2, <1>3, PTL DEF Spec

-----------------------------------------------------------------------------
(* Surveys                                                                   *)

DefaultsIn(o, s) == {k \in 1..Len(s) : s[k].org = o /\ s[k].flagged /\ ~s[k].deleted}
ProvidedIn(o, s) == \E k \in 1..Len(s) : s[k].org = o /\ ~s[k].deleted /\ s[k].parts = Parts

\* A survey that a handler is going to delete has an older default beside it.
ElderIn(k, s) == k \in 1..Len(s) /\ s[k].flagged /\ \E j \in DefaultsIn(s[k].org, s) : j < k

Linking == {"sub", "newsub", "user", "adduser", "setuser"}

\* Whoever deletes surveys leaves one, and whoever is about to link a user to an
\* organization has seen or written a complete survey there.
KeptIn(x, s) ==
    /\ \A k \in x.twins : ElderIn(k, s)
    /\ x.at = "dedupe" => DefaultsIn(x.main, s) # {}
    /\ x.at \in Linking /\ x.main # 0 => ProvidedIn(x.main, s)

UsersProvided == \A n \in 1..Len(user) : user[n].main # 0 => ProvidedIn(user[n].main, survey)
DefaultLeft ==
    (\E k \in 1..Len(survey) : survey[k].flagged) => \E o \in 1..Len(org) : DefaultsIn(o, survey) # {}

SurveyInv ==
    /\ \A h \in Slots : KeptIn(work[h], survey)
    /\ UsersProvided /\ DefaultLeft

LEMMA SurveyInvIsKept ==
    ASSUME SurveyInv
    PROVE  SurveyKept
<1>1. \A o : ProvidedIn(o, survey) => \E k \in Live(o) : Complete(k)
  BY DEF ProvidedIn, Live, Complete
<1>2. \A o : DefaultsIn(o, survey) = Defaults(o)
  BY DEF DefaultsIn, Defaults
<1>3. QED
  BY <1>1, <1>2 DEF SurveyInv, UsersProvided, DefaultLeft, SurveyKept

\* What a step may do to the surveys: complete ones stay complete, and only a survey
\* with an older default beside it is deleted.
Firm ==
    /\ Len(survey) <= Len(survey')
    /\ \A k \in 1..Len(survey) :
          /\ survey'[k].org = survey[k].org /\ survey'[k].flagged = survey[k].flagged
          /\ survey[k].parts = Parts => survey'[k].parts = Parts
          /\ survey'[k].deleted = survey[k].deleted \/ ElderIn(k, survey)
    /\ \A k \in 1..Len(survey') : survey'[k].flagged => k \in 1..Len(survey)

LEMMA SameFirm ==
    ASSUME Sound, UNCHANGED survey
    PROVE  Firm
  BY Lengths DEF Firm

\* The oldest default of an organization is deleted by nobody.
LEMMA OldestStays ==
    ASSUME Sound, Sound', Firm, NEW o, DefaultsIn(o, survey) # {}
    PROVE  \E m \in DefaultsIn(o, survey) \cap DefaultsIn(o, survey') :
              \A j \in DefaultsIn(o, survey) : m <= j
<1>1. PICK D : D = DefaultsIn(o, survey)
  OBVIOUS
<1>2. D \in SUBSET (1 .. Len(survey)) /\ Len(survey) \in Nat /\ Len(survey') \in Nat
  BY <1>1, Lengths DEF DefaultsIn, Sound, RowsOK
<1>3. PICK m \in D : \A j \in D : m <= j
  BY <1>1, <1>2, LeastOf
<1>4. m \in 1..Len(survey) /\ m \in 1..Len(survey') /\ survey[m].org = o /\ survey[m].flagged /\ ~survey[m].deleted
  BY <1>1, <1>2, <1>3 DEF DefaultsIn, Firm
<1>5. ~ElderIn(m, survey)
  BY <1>1, <1>2, <1>3, <1>4 DEF ElderIn
<1>6. m \in DefaultsIn(o, survey')
  BY <1>4, <1>5 DEF Firm, DefaultsIn
<1>7. QED
  BY <1>1, <1>3, <1>6

LEMMA DefaultIsProvided ==
    ASSUME Sound, NEW o, DefaultsIn(o, survey) # {}
    PROVE  ProvidedIn(o, survey)
  BY SurveyFields DEF DefaultsIn, ProvidedIn

\* So what is said of surveys stays true.
LEMMA FirmKeeps ==
    ASSUME Sound, Sound', Firm
    PROVE  /\ \A o : DefaultsIn(o, survey) # {} => DefaultsIn(o, survey') # {}
           /\ \A o : ProvidedIn(o, survey) => ProvidedIn(o, survey')
           /\ \A k : ElderIn(k, survey) => ElderIn(k, survey')
<1>1. Len(survey) \in Nat /\ Len(survey') \in Nat
  BY Lengths DEF Sound, RowsOK
<1>2. ASSUME NEW o, DefaultsIn(o, survey) # {}
      PROVE  DefaultsIn(o, survey') # {}
  BY <1>2, OldestStays
<1>3. ASSUME NEW k, ElderIn(k, survey)
      PROVE  ElderIn(k, survey')
  <2>1. PICK o : o = survey[k].org
    OBVIOUS
  <2>2. PICK j \in DefaultsIn(o, survey) : j < k
    BY <1>3, <2>1 DEF ElderIn
  <2>3. PICK m \in DefaultsIn(o, survey) \cap DefaultsIn(o, survey') : m <= j
    BY <2>2, OldestStays
  <2>4. m \in Nat /\ j \in Nat /\ k \in Nat
    BY <1>3, <2>2, <2>3, <1>1 DEF DefaultsIn, ElderIn
  <2>5. k \in 1..Len(survey') /\ survey'[k].flagged /\ survey'[k].org = o
    BY <1>1, <1>3, <2>1 DEF Firm, ElderIn
  <2>6. QED
    BY <2>2, <2>3, <2>4, <2>5 DEF ElderIn
<1>4. ASSUME NEW o, ProvidedIn(o, survey)
      PROVE  ProvidedIn(o, survey')
  <2>1. PICK k \in 1..Len(survey) : survey[k].org = o /\ ~survey[k].deleted /\ survey[k].parts = Parts
    BY <1>4 DEF ProvidedIn
  <2>2. k \in 1..Len(survey') /\ survey'[k].org = o /\ survey'[k].parts = Parts
    BY <1>1, <2>1 DEF Firm
  <2>3. CASE survey'[k].deleted = survey[k].deleted
    BY <2>1, <2>2, <2>3 DEF ProvidedIn
  <2>4. CASE ElderIn(k, survey)
    <3>1. PICK m \in DefaultsIn(o, survey') : m \in DefaultsIn(o, survey)
      BY <2>1, <2>4, OldestStays DEF ElderIn
    <3>2. m \in 1..Len(survey) /\ m \in 1..Len(survey') /\ survey'[m].org = o /\ survey'[m].flagged /\ ~survey'[m].deleted
      BY <3>1 DEF DefaultsIn
    <3>3. survey'[m].parts = Parts
      BY <3>2, SurveyFields DEF Firm
    <3>4. QED
      BY <3>2, <3>3 DEF ProvidedIn
  <2>5. QED
    BY <2>1, <2>3, <2>4 DEF Firm
<1>5. QED
  BY <1>2, <1>3, <1>4

LEMMA KeptStep ==
    ASSUME Sound, Sound', SurveyInv, Firm, Len(org) <= Len(org'),
           \A g \in Slots : work'[g] = work[g] \/ KeptIn(work'[g], survey'),
           \A n \in 1..Len(user') :
              \/ user'[n].main = 0
              \/ n \in 1..Len(user) /\ user'[n].main = user[n].main
              \/ ProvidedIn(user'[n].main, survey')
    PROVE  SurveyInv'
<1>1. ASSUME NEW g \in Slots
      PROVE  KeptIn(work'[g], survey')
  <2>1. CASE work'[g] = work[g]
    <3>1. KeptIn(work[g], survey)
      BY DEF SurveyInv
    <3>2. KeptIn(work[g], survey')
      BY <3>1, FirmKeeps DEF KeptIn
    <3>3. QED
      BY <2>1, <3>2
  <2>2. QED
    BY <2>1
<1>2. UsersProvided'
  <2>1. ASSUME NEW n \in 1..Len(user'), user'[n].main # 0
        PROVE  ProvidedIn(user'[n].main, survey')
    <3>1. CASE n \in 1..Len(user) /\ user'[n].main = user[n].main
      BY <2>1, <3>1, FirmKeeps DEF SurveyInv, UsersProvided
    <3>2. QED
      BY <2>1, <3>1
  <2>2. QED
    BY <2>1 DEF UsersProvided
<1>3. DefaultLeft'
  <2>1. ASSUME NEW k \in 1..Len(survey'), survey'[k].flagged
        PROVE  \E o \in 1..Len(org') : DefaultsIn(o, survey') # {}
    <3>1. k \in 1..Len(survey) /\ survey[k].flagged
      BY <2>1 DEF Firm
    <3>2. PICK o \in 1..Len(org) : DefaultsIn(o, survey) # {}
      BY <3>1 DEF SurveyInv, DefaultLeft
    <3>3. o \in 1..Len(org')
      BY Lengths DEF Sound, RowsOK
    <3>4. QED
      BY <3>2, <3>3, FirmKeeps
  <2>2. QED
    BY <2>1 DEF DefaultLeft
<1>4. QED
  BY <1>1, <1>2, <1>3 DEF SurveyInv

\* A step of one handler that changes neither surveys nor users' organizations.
LEMMA KeptGoes ==
    ASSUME Sound, Sound', SurveyInv, UNCHANGED survey, Len(org) <= Len(org'),
           Len(user') = Len(user), \A n \in 1..Len(user) : user'[n].main = user[n].main,
           NEW h \in Slots, NEW x, Goes(h, x), KeptIn(x, survey)
    PROVE  SurveyInv'
<1>1. work'[h] = x /\ \A g \in Slots \ {h} : work'[g] = work[g]
  BY OneGoes
<1>2. \A g \in Slots : work'[g] = work[g] \/ KeptIn(work'[g], survey')
  BY <1>1
<1>3. QED
  BY <1>2, SameFirm, KeptStep

LEMMA IdleKept ==
    ASSUME Sound
    PROVE  \A s : KeptIn(Idle, s)
  BY IdleFields DEF KeptIn, Linking

LEMMA StartKept ==
    ASSUME Sound, NEW m \in MsgType, NEW l \in Steps \ {"dedupe"}, NEW t \in 0..Tries
    PROVE  \A s : KeptIn(Start(m, l, t), s)
<1>1. PICK x : x = Start(m, l, t)
  OBVIOUS
<1>2. x.at = l /\ x.main = 0 /\ x.twins = {}
  BY <1>1, IdleFields DEF Start, WorkType
<1>3. QED
  BY <1>1, <1>2 DEF KeptIn

LEMMA KeptReads ==
    ASSUME Sound, Sound', SurveyInv, UNCHANGED rows,
           NEW h \in Slots, NEW x, Goes(h, x), KeptIn(x, survey)
    PROVE  SurveyInv'
<1>1. UNCHANGED <<user, org, survey>> /\ Len(org) <= Len(org)
  BY Lengths DEF rows
<1>2. QED
  BY <1>1, KeptGoes

LEMMA KeptAt ==
    ASSUME Sound, SurveyInv, NEW h \in Slots
    PROVE  KeptIn(work[h], survey)
  BY DEF SurveyInv

\* Work begins, or a query fails: no survey is written.
LEMMA StartsKept ==
    ASSUME Sound, Sound', SurveyInv, UNCHANGED rows, NEW h \in Slots, NEW m \in MsgType,
           NEW l \in Steps \ {"dedupe"}, Starts(h, m, l)
    PROVE  SurveyInv'
<1>1. PICK x : x = Start(m, l, Tries)
  OBVIOUS
<1>2. Goes(h, x) /\ Tries \in 0..Tries
  BY <1>1, ConstantsAssumption DEF Starts, Start
<1>3. KeptIn(x, survey)
  BY <1>1, <1>2, StartKept
<1>4. QED
  BY <1>2, <1>3, KeptReads

LEMMA DoneKept ==
    ASSUME Sound, Sound', SurveyInv, UNCHANGED rows, NEW h \in Slots, Done(h)
    PROVE  SurveyInv'
  BY IdleKept, KeptReads DEF Done

LEMMA OutsideKept ==
    ASSUME Sound, Sound', SurveyInv,
           \/ \E m \in Messages : Announce(m)
           \/ \E h \in Slots : Deliver(h) \/ (\E c \in Cfs : Visit(h, c) \/ \E e \in Emails : Edit(h, c, e))
    PROVE  SurveyInv'
<1>1. ASSUME NEW m \in Messages, Announce(m)
      PROVE  SurveyInv'
  <2>1. UNCHANGED <<work, user, org, survey>>
    BY <1>1 DEF Announce, rows
  <2>2. QED
    BY <2>1 DEF SurveyInv, UsersProvided, DefaultLeft
<1>2. ASSUME NEW h \in Slots, Deliver(h)
      PROVE  SurveyInv'
  <2>1. PICK m : m = Head(queue)
    OBVIOUS
  <2>2. m \in Messages
    BY <1>2, <2>1, HeadTailProperties DEF Deliver, Sound, RestOK
  <2>3. PICK l : l = IF m.kind = "sync" THEN Begin(m) ELSE m.kind
    OBVIOUS
  <2>4. m \in MsgType /\ l \in Steps \ {"dedupe"}
    BY <2>2, <2>3, MessageFields DEF Begin, Steps
  <2>5. Starts(h, m, l) /\ UNCHANGED rows
    BY <1>2, <2>1, <2>3 DEF Deliver
  <2>6. QED
    BY <2>4, <2>5, StartsKept
<1>3. ASSUME NEW h \in Slots, NEW c \in Cfs, Visit(h, c)
      PROVE  SurveyInv'
  <2>1. PICK m : m = [NoMessage EXCEPT !.kind = "visit", !.cf = c]
    OBVIOUS
  <2>2. m \in MsgType
    BY <2>1, IdleFields DEF NoMessage, MsgType
  <2>3. Starts(h, m, "seek") /\ UNCHANGED rows /\ "seek" \in Steps
    BY <1>3, <2>1 DEF Visit, Steps
  <2>4. QED
    BY <2>2, <2>3, StartsKept
<1>4. ASSUME NEW h \in Slots, NEW c \in Cfs, NEW e \in Emails, Edit(h, c, e)
      PROVE  SurveyInv'
  <2>1. PICK m : m = [NoMessage EXCEPT !.kind = "edit", !.cf = c, !.email = e]
    OBVIOUS
  <2>2. m \in MsgType
    BY <2>1, IdleFields DEF NoMessage, MsgType
  <2>3. Starts(h, m, "profile") /\ UNCHANGED rows /\ "profile" \in Steps
    BY <1>4, <2>1 DEF Edit, Steps
  <2>4. QED
    BY <2>2, <2>3, StartsKept
<1>5. QED
  BY <1>1, <1>2, <1>3, <1>4

LEMMA ErrorsKept ==
    ASSUME Sound, Sound', SurveyInv, Crash \/ \E h \in Slots : QueryFails(h)
    PROVE  SurveyInv'
<1>1. UNCHANGED rows
  BY DEF Crash, QueryFails
<1>2. UNCHANGED <<user, org, survey>>
  BY <1>1 DEF rows
<1>3. ASSUME Exit
      PROVE  SurveyInv'
  <2>1. \A g \in Slots : KeptIn(work'[g], survey')
    BY <1>3, IdleKept DEF Exit
  <2>2. QED
    BY <1>2, <2>1 DEF SurveyInv, UsersProvided, DefaultLeft
<1>4. ASSUME NEW h \in Slots, QueryFails(h)
      PROVE  SurveyInv'
  <2>1. CASE Done(h)
    BY <1>1, <2>1, DoneKept
  <2>2. ASSUME work[h].at \in {"sub", "newsub"}, At(h, "user")
        PROVE  SurveyInv'
    <3>1. PICK x : x = [work[h] EXCEPT !.at = "user"]
      OBVIOUS
    <3>2. x.at = "user" /\ x.main = work[h].main /\ x.twins = work[h].twins
      BY <3>1, AtFields DEF Steps
    <3>3. KeptIn(x, survey)
      BY <2>2, <3>2, KeptAt DEF KeptIn, Linking
    <3>4. QED
      BY <1>1, <2>2, <3>1, <3>3, KeptReads DEF At
  <2>3. ASSUME work[h].try > 1,
               Goes(h, [Idle EXCEPT !.at = Begin(work[h].msg), !.msg = work[h].msg, !.try = work[h].try - 1])
        PROVE  SurveyInv'
    <3>1. PICK m : m = work[h].msg
      OBVIOUS
    <3>2. PICK t : t = work[h].try - 1
      OBVIOUS
    <3>3. t \in 0..Tries /\ m \in MsgType
      BY <2>3, <3>1, <3>2, AtHand, ConstantsAssumption
    <3>4. Begin(m) \in Steps \ {"dedupe"}
      BY DEF Begin, Steps
    <3>5. Goes(h, Start(m, Begin(m), t))
      BY <2>3, <3>1, <3>2 DEF Start
    <3>6. QED
      BY <1>1, <3>3, <3>4, <3>5, StartKept, KeptReads
  <2>4. QED
    BY <1>3, <1>4, <2>1, <2>2, <2>3 DEF QueryFails
<1>5. QED
  BY <1>3, <1>4 DEF Crash

\* Steps that lead to no link and delete nothing.
LEMMA ElsewhereKept ==
    ASSUME Sound, Sound', SurveyInv, NEW h \in Slots, NEW x, Goes(h, x), UNCHANGED rows,
           x.twins = work[h].twins, x.at \notin Linking \cup {"dedupe"}
    PROVE  SurveyInv'
<1>1. KeptIn(x, survey)
  BY KeptAt DEF KeptIn
<1>2. QED
  BY <1>1, KeptReads

LEMMA RequestsKept ==
    ASSUME Sound, Sound', SurveyInv, NEW h \in Slots,
           Seek(h) \/ Fetch(h) \/ (\E c \in Cfs : Profile(h, c)) \/ FindDeleted(h) \/ Reread(h)
    PROVE  SurveyInv'
<1>1. UNCHANGED rows
  BY DEF Seek, Fetch, Profile, FindDeleted, Reread
<1>2. CASE Done(h)
  BY <1>1, <1>2, DoneKept
<1>3. ASSUME NEW l \in {"fetch", "setprofile", "deactivate", "destroy"}, At(h, l)
      PROVE  SurveyInv'
  <2>1. PICK x : x = [work[h] EXCEPT !.at = l]
    OBVIOUS
  <2>2. x.at = l /\ x.twins = work[h].twins
    BY <2>1, AtFields DEF Steps
  <2>3. QED
    BY <1>1, <1>3, <2>1, <2>2, ElsewhereKept DEF At, Linking
<1>4. ASSUME NEW n, Goes(h, [work[h] EXCEPT !.at = Begin(n), !.msg = n]), n.given = {"main"}
      PROVE  SurveyInv'
  <2>1. PICK x : x = [work[h] EXCEPT !.at = Begin(n), !.msg = n]
    OBVIOUS
  <2>2. x.at = "org" /\ x.twins = work[h].twins
    BY <1>4, <2>1, AtHand DEF WorkType, Begin
  <2>3. QED
    BY <1>1, <1>4, <2>1, <2>2, ElsewhereKept DEF Linking
<1>5. ASSUME NEW c, Goes(h, [work[h] EXCEPT !.at = "newprofile", !.msg.cf = c])
      PROVE  SurveyInv'
  <2>1. PICK x : x = [work[h] EXCEPT !.at = "newprofile", !.msg.cf = c]
    OBVIOUS
  <2>2. x.at = "newprofile" /\ x.twins = work[h].twins
    BY <2>1, AtHand DEF WorkType
  <2>3. QED
    BY <1>1, <1>5, <2>1, <2>2, ElsewhereKept DEF Linking
<1>6. CASE Seek(h) \/ FindDeleted(h) \/ Reread(h)
  BY <1>2, <1>3, <1>6 DEF Seek, FindDeleted, Reread
<1>7. CASE Fetch(h)
  <2>1. CASE Done(h)
    BY <1>2, <2>1
  <2>2. CASE ~Done(h)
    <3>1. PICK m : m = last[work[h].msg.cf]
      OBVIOUS
    <3>2. PICK n : n = [m EXCEPT !.kind = "visit", !.given = {"main"}]
      OBVIOUS
    <3>3. m.kind = "sync" /\ Goes(h, [work[h] EXCEPT !.at = Begin(n), !.msg = n])
      BY <1>7, <2>2, <3>1, <3>2 DEF Fetch
    <3>4. m \in MsgType
      <4>1. work[h].msg.cf \in Cfs
        BY <1>7, AtHand DEF Fetch, FitsIn
      <4>2. m \in Messages
        BY <3>1, <3>3, <4>1, IdleFields DEF Sound, RestOK
      <4>3. QED
        BY <4>2, MessageFields
    <3>5. n.given = {"main"}
      BY <3>2, <3>4 DEF MsgType
    <3>6. QED
      BY <1>4, <3>3, <3>5
  <2>3. QED
    BY <2>1, <2>2
<1>8. CASE \E c \in Cfs : Profile(h, c)
  BY <1>3, <1>5, <1>8 DEF Profile
<1>9. QED
  BY <1>6, <1>7, <1>8

\* Steps that change rows of users, without linking one.
LEMMA UsersKept ==
    ASSUME Sound, Sound', SurveyInv, NEW h \in Slots,
           NewProfile(h) \/ SetProfile(h) \/ Deactivate(h) \/ Destroy(h)
    PROVE  SurveyInv'
<1>1. UNCHANGED <<org, survey>> /\ Done(h)
  BY DEF NewProfile, SetProfile, Deactivate, Destroy
<1>2. work'[h] = Idle /\ \A g \in Slots \ {h} : work'[g] = work[g]
  BY <1>1, OneGoes DEF Done
<1>3. \A g \in Slots : work'[g] = work[g] \/ KeptIn(work'[g], survey')
  BY <1>2, IdleKept
<1>4. \A n \in 1..Len(user') :
          \/ user'[n].main = 0
          \/ n \in 1..Len(user) /\ user'[n].main = user[n].main
  <2>1. CASE NewProfile(h)
    <3>1. PICK r : r = NewUser(work[h].msg, 0, 0)
      OBVIOUS
    <3>2. user' = Append(user, r) /\ r.main = 0
      BY <2>1, <3>1 DEF NewProfile, NewUser
    <3>3. user \in Seq(UserType)
      BY DEF Sound, RowsOK
    <3>4. QED
      BY <3>2, <3>3
  <2>2. CASE SetProfile(h) \/ Deactivate(h) \/ Destroy(h)
    <3>1. Len(user) \in Nat /\ DOMAIN user' = 1..Len(user)
      BY <2>2, Lengths DEF SetProfile, Deactivate, Destroy
    <3>2. Len(user') = Len(user)
      BY <3>1, Lengths, LenProperties DEF Sound, RowsOK
    <3>3. ASSUME NEW n \in 1..Len(user)
          PROVE  user'[n].main = user[n].main
      <4>1. user[n] \in UserType
        BY UserFields
      <4>2. PICK r : r = user[n]
        OBVIOUS
      <4>3. /\ \A e : [r EXCEPT !.email = e].main = r.main
            /\ [r EXCEPT !.active = FALSE].main = r.main
            /\ [r EXCEPT !.cf = "none"].main = r.main
        BY <4>1, <4>2 DEF UserType
      <4>4. \/ user'[n] = r
            \/ user'[n] = [r EXCEPT !.email = work[h].msg.email]
            \/ user'[n] = [r EXCEPT !.active = FALSE]
            \/ user'[n] = [r EXCEPT !.cf = "none"]
        BY <2>2, <4>2 DEF SetProfile, Deactivate, Destroy
      <4>5. QED
        BY <4>2, <4>3, <4>4
    <3>4. QED
      BY <3>2, <3>3
  <2>3. QED
    BY <2>1, <2>2
<1>5. Len(org) <= Len(org')
  BY <1>1, Lengths
<1>6. QED
  BY <1>1, <1>3, <1>4, <1>5, SameFirm, KeptStep

LEMMA FindOrgKept ==
    ASSUME Sound, Sound', SurveyInv, NEW h \in Slots, FindOrg(h)
    PROVE  SurveyInv'
<1>1. PICK o : o = OrgOf("main")
  OBVIOUS
<1>2. PICK x : x = [work[h] EXCEPT !.main = o, !.at = IF o = 0 THEN "neworg" ELSE "defaults"]
  OBVIOUS
<1>3. x.at \in {"neworg", "defaults"} /\ x.twins = work[h].twins
  BY <1>2, AtHand DEF WorkType
<1>4. Goes(h, x) /\ UNCHANGED rows
  BY <1>1, <1>2 DEF FindOrg
<1>5. QED
  BY <1>3, <1>4, ElsewhereKept DEF Linking

LEMMA OrgsKept ==
    ASSUME Sound, Sound', SurveyInv, NEW h \in Slots, CreateOrg(h) \/ CreateSub(h)
    PROVE  SurveyInv'
<1>1. UNCHANGED <<user, survey>>
  BY DEF CreateOrg, CreateSub
<1>2. Len(org) <= Len(org')
  <2>1. org \in Seq(OrgType) /\ \E r : org' = Append(org, r)
    BY DEF CreateOrg, CreateSub, Sound, RowsOK
  <2>2. QED
    BY <2>1
<1>3. CASE CreateOrg(h)
  <2>1. PICK x : x = [work[h] EXCEPT !.main = Len(org) + 1, !.at = "defaults"]
    OBVIOUS
  <2>2. x.at = "defaults" /\ x.twins = work[h].twins
    BY <2>1, AtHand DEF WorkType
  <2>3. KeptIn(x, survey)
    BY <2>2, KeptAt DEF KeptIn, Linking
  <2>4. Goes(h, x)
    BY <1>3, <2>1 DEF CreateOrg
  <2>5. QED
    BY <1>1, <1>2, <2>3, <2>4, KeptGoes
<1>4. CASE CreateSub(h)
  <2>1. PICK x : x = [work[h] EXCEPT !.sub = Len(org) + 1, !.at = "user"]
    OBVIOUS
  <2>2. x.at = "user" /\ x.twins = work[h].twins /\ x.main = work[h].main /\ work[h].at = "newsub"
    BY <1>4, <2>1, AtHand DEF WorkType, CreateSub
  <2>3. KeptIn(x, survey)
    BY <2>2, KeptAt DEF KeptIn, Linking
  <2>4. Goes(h, x)
    BY <1>4, <2>1 DEF CreateSub
  <2>5. QED
    BY <1>1, <1>2, <2>3, <2>4, KeptGoes
<1>5. QED
  BY <1>3, <1>4

\* All defaults but the oldest are to be deleted.
LEMMA FindDefaultsKept ==
    ASSUME Sound, Sound', SurveyInv, NEW h \in Slots, FindDefaults(h)
    PROVE  SurveyInv'
<1>1. PICK o : o = work[h].main
  OBVIOUS
<1>2. PICK S : S = Defaults(o)
  OBVIOUS
<1>3. PICK T : T = S \ {First(S)}
  OBVIOUS
<1>4. PICK l : l = IF S = {} THEN "survey" ELSE IF Cardinality(S) > 1 THEN "dedupe" ELSE AfterOrg(h)
  OBVIOUS
<1>5. PICK x : x = [work[h] EXCEPT !.twins = T, !.at = l]
  OBVIOUS
<1>6. Goes(h, x) /\ UNCHANGED rows
  BY <1>1, <1>2, <1>3, <1>4, <1>5 DEF FindDefaults
<1>7. x.twins = T /\ x.at = l /\ x.main = o
  BY <1>1, <1>5, AtHand DEF WorkType
<1>8. S = DefaultsIn(o, survey) /\ S \in SUBSET (1 .. Len(survey)) /\ Len(survey) \in Nat
  BY <1>2, Lengths DEF Defaults, DefaultsIn
<1>9. S # {} => First(S) \in S /\ \A k \in S : First(S) <= k
  BY <1>8, FirstOf
<1>10. ASSUME NEW k \in T
       PROVE  ElderIn(k, survey)
  <2>1. k \in S /\ First(S) \in S /\ First(S) <= k /\ First(S) # k
    BY <1>3, <1>9
  <2>2. First(S) < k
    BY <1>8, <2>1
  <2>3. QED
    BY <1>8, <2>1, <2>2 DEF ElderIn, DefaultsIn
<1>11. l = "survey" \/ S # {}
  BY <1>4
<1>12. S # {} => ProvidedIn(o, survey)
  BY <1>8, DefaultIsProvided
<1>13. KeptIn(x, survey)
  BY <1>7, <1>8, <1>10, <1>11, <1>12 DEF KeptIn, Linking
<1>14. QED
  BY <1>6, <1>13, KeptReads

LEMMA DedupeKept ==
    ASSUME Sound, Sound', SurveyInv, NEW h \in Slots, Dedupe(h)
    PROVE  SurveyInv'
<1>1. work[h].at = "dedupe" /\ UNCHANGED <<user, org>> /\ Len(org) <= Len(org')
  BY Lengths DEF Dedupe
<1>2. Len(survey) \in Nat /\ DOMAIN survey' = 1..Len(survey) /\ survey' \in Seq(SurveyType')
  BY Lengths DEF Dedupe, Sound, RowsOK
<1>3. Len(survey') = Len(survey)
  BY <1>2, LenProperties
<1>4. ASSUME NEW k \in 1..Len(survey)
      PROVE  /\ survey'[k].org = survey[k].org /\ survey'[k].flagged = survey[k].flagged
             /\ survey'[k].parts = survey[k].parts
             /\ survey'[k].deleted = survey[k].deleted \/ k \in work[h].twins
  <2>1. PICK d : d = [survey[k] EXCEPT !.deleted = TRUE]
    OBVIOUS
  <2>2. d.org = survey[k].org /\ d.flagged = survey[k].flagged /\ d.parts = survey[k].parts
    BY <2>1, SurveyFields DEF SurveyType
  <2>3. survey'[k] = IF k \in work[h].twins THEN d ELSE survey[k]
    BY <2>1 DEF Dedupe
  <2>4. QED
    BY <2>2, <2>3
<1>5. \A k \in work[h].twins : ElderIn(k, survey)
  BY KeptAt DEF KeptIn
<1>6. Firm
  BY <1>2, <1>3, <1>4, <1>5 DEF Firm
<1>7. PICK x : x = [work[h] EXCEPT !.at = AfterOrg(h), !.twins = {}]
  OBVIOUS
<1>8. x.at \in Linking /\ x.twins = {} /\ x.main = work[h].main
  BY <1>7, AtHand DEF WorkType, AfterOrg, Linking
<1>9. ProvidedIn(x.main, survey')
  <2>1. DefaultsIn(x.main, survey) # {}
    BY <1>1, <1>8, KeptAt DEF KeptIn
  <2>2. ProvidedIn(x.main, survey)
    BY <2>1, DefaultIsProvided
  <2>3. QED
    BY <1>6, <2>2, FirmKeeps
<1>10. KeptIn(x, survey')
  BY <1>8, <1>9 DEF KeptIn, Linking
<1>11. Goes(h, x)
  BY <1>7 DEF Dedupe
<1>12. work'[h] = x /\ \A g \in Slots \ {h} : work'[g] = work[g]
  BY <1>11, OneGoes
<1>13. \A g \in Slots : work'[g] = work[g] \/ KeptIn(work'[g], survey')
  BY <1>10, <1>12
<1>14. QED
  BY <1>1, <1>6, <1>13, KeptStep

LEMMA CreateSurveyKept ==
    ASSUME Sound, Sound', SurveyInv, NEW h \in Slots, CreateSurvey(h)
    PROVE  SurveyInv'
<1>1. UNCHANGED <<user, org>> /\ Len(org) <= Len(org')
  BY Lengths DEF CreateSurvey
<1>2. PICK r : r = [org |-> work[h].main, flagged |-> FALSE, deleted |-> FALSE, parts |-> 0]
  OBVIOUS
<1>3. survey \in Seq(SurveyType) /\ survey' = Append(survey, r) /\ ~r.flagged
  BY <1>2 DEF CreateSurvey, Sound, RowsOK
<1>4. Firm
  BY <1>3 DEF Firm
<1>5. PICK x : x = [work[h] EXCEPT !.at = "parts", !.row = Len(survey) + 1]
  OBVIOUS
<1>6. x.at = "parts" /\ x.twins = work[h].twins
  BY <1>5, AtHand DEF WorkType
<1>7. KeptIn(x, survey')
  BY <1>4, <1>6, KeptAt, FirmKeeps DEF KeptIn, Linking
<1>8. Goes(h, x)
  BY <1>5 DEF CreateSurvey
<1>9. work'[h] = x /\ \A g \in Slots \ {h} : work'[g] = work[g]
  BY <1>8, OneGoes
<1>10. \A g \in Slots : work'[g] = work[g] \/ KeptIn(work'[g], survey')
  BY <1>7, <1>9
<1>11. QED
  BY <1>1, <1>4, <1>10, KeptStep

\* With its last part a survey is complete.
LEMMA CreatePartKept ==
    ASSUME Sound, Sound', SurveyInv, NEW h \in Slots, CreatePart(h)
    PROVE  SurveyInv'
<1>1. work[h].at = "parts" /\ UNCHANGED <<user, org>> /\ Len(org) <= Len(org')
  BY Lengths DEF CreatePart
<1>2. PICK k : k = work[h].row
  OBVIOUS
<1>3. /\ k \in 1..Len(survey) /\ survey[k].org = work[h].main
      /\ ~survey[k].flagged /\ ~survey[k].deleted /\ survey[k].parts < Parts
  BY <1>1, <1>2, AtHand DEF FitsIn
<1>4. survey[k].parts \in Nat /\ Parts \in Nat
  BY <1>3, SurveyFields, ConstantsAssumption
<1>5. PICK r : r = [survey[k] EXCEPT !.parts = survey[k].parts + 1]
  OBVIOUS
<1>6. /\ r.org = survey[k].org /\ r.flagged = survey[k].flagged
      /\ r.deleted = survey[k].deleted /\ r.parts = survey[k].parts + 1
  BY <1>3, <1>5, SurveyFields DEF SurveyType
<1>7. survey' = [survey EXCEPT ![k] = r] /\ survey \in Seq(SurveyType)
  BY <1>2, <1>5 DEF CreatePart, Sound, RowsOK
<1>8. Len(survey') = Len(survey) /\ survey'[k] = r /\ \A j \in 1..Len(survey) : j # k => survey'[j] = survey[j]
  BY <1>3, <1>7
<1>9. Firm
  <2>1. Len(survey) <= Len(survey')
    BY <1>8, Lengths
  <2>2. \A j \in 1..Len(survey) :
          /\ survey'[j].org = survey[j].org /\ survey'[j].flagged = survey[j].flagged
          /\ survey'[j].deleted = survey[j].deleted
    BY <1>6, <1>8
  <2>3. survey[k].parts # Parts
    BY <1>3, <1>4
  <2>4. \A j \in 1..Len(survey) : survey[j].parts = Parts => survey'[j].parts = Parts
    BY <1>8, <2>3
  <2>5. QED
    BY <1>8, <2>1, <2>2, <2>4 DEF Firm
<1>10. PICK x : x = IF survey[k].parts + 1 < Parts THEN work[h]
                   ELSE [work[h] EXCEPT !.at = AfterOrg(h), !.row = 0]
  OBVIOUS
<1>11. Goes(h, x)
  BY <1>2, <1>10 DEF CreatePart
<1>12. KeptIn(x, survey')
  <2>1. CASE survey[k].parts + 1 < Parts
    BY <1>1, <1>9, <1>10, <2>1, KeptAt, FirmKeeps DEF KeptIn, Linking
  <2>2. CASE ~(survey[k].parts + 1 < Parts)
    <3>1. x.at \in Linking /\ x.main = work[h].main /\ x.twins = work[h].twins
      BY <1>10, <2>2, AtHand DEF WorkType, AfterOrg, Linking
    <3>2. survey[k].parts + 1 = Parts
      BY <1>3, <1>4, <2>2
    <3>3. k \in 1..Len(survey') /\ survey'[k].org = x.main /\ ~survey'[k].deleted /\ survey'[k].parts = Parts
      BY <1>3, <1>6, <1>8, <3>1, <3>2
    <3>4. ProvidedIn(x.main, survey')
      BY <3>3 DEF ProvidedIn
    <3>5. QED
      BY <1>9, <3>1, <3>4, KeptAt, FirmKeeps DEF KeptIn, Linking
  <2>3. QED
    BY <2>1, <2>2
<1>13. work'[h] = x /\ \A g \in Slots \ {h} : work'[g] = work[g]
  BY <1>11, OneGoes
<1>14. \A g \in Slots : work'[g] = work[g] \/ KeptIn(work'[g], survey')
  BY <1>12, <1>13
<1>15. QED
  BY <1>1, <1>9, <1>14, KeptStep

LEMMA FindsKept ==
    ASSUME Sound, Sound', SurveyInv, NEW h \in Slots, FindSub(h) \/ FindRow(h)
    PROVE  SurveyInv'
<1>1. UNCHANGED rows /\ work[h].at \in Linking
  BY DEF FindSub, FindRow, Linking
<1>2. ASSUME NEW o, NEW l \in Linking, Goes(h, [work[h] EXCEPT !.sub = o, !.at = l])
      PROVE  SurveyInv'
  <2>1. PICK x : x = [work[h] EXCEPT !.sub = o, !.at = l]
    OBVIOUS
  <2>2. x.at = l /\ x.main = work[h].main /\ x.twins = work[h].twins
    BY <2>1, AtHand DEF WorkType
  <2>3. KeptIn(x, survey)
    BY <1>1, <2>2, KeptAt DEF KeptIn, Linking
  <2>4. QED
    BY <1>1, <1>2, <2>1, <2>3, KeptReads
<1>3. ASSUME NEW n, NEW l \in Linking, Goes(h, [work[h] EXCEPT !.row = n, !.at = l])
      PROVE  SurveyInv'
  <2>1. PICK x : x = [work[h] EXCEPT !.row = n, !.at = l]
    OBVIOUS
  <2>2. x.at = l /\ x.main = work[h].main /\ x.twins = work[h].twins
    BY <2>1, AtHand DEF WorkType
  <2>3. KeptIn(x, survey)
    BY <1>1, <2>2, KeptAt DEF KeptIn, Linking
  <2>4. QED
    BY <1>1, <1>3, <2>1, <2>3, KeptReads
<1>4. CASE FindSub(h)
  BY <1>2, <1>4 DEF FindSub, Linking
<1>5. CASE FindRow(h)
  BY <1>3, <1>5 DEF FindRow, Linking
<1>6. QED
  BY <1>4, <1>5

\* A user is linked to an organization that has a complete survey.
LEMMA LinksKept ==
    ASSUME Sound, Sound', SurveyInv, NEW h \in Slots, AddUser(h) \/ SetUser(h)
    PROVE  SurveyInv'
<1>1. work[h].at \in {"adduser", "setuser"} /\ UNCHANGED <<org, survey>> /\ Len(org) <= Len(org')
  BY Lengths DEF AddUser, SetUser
<1>2. PICK r : r = NewUser(work[h].msg, work[h].main, work[h].sub)
  OBVIOUS
<1>3. r.main = work[h].main
  BY <1>1, <1>2, SyncedUser
<1>4. r.main = 0 \/ ProvidedIn(r.main, survey')
  BY <1>1, <1>3, KeptAt DEF KeptIn, Linking
<1>5. \A n \in 1..Len(user') :
          \/ user'[n].main = 0
          \/ n \in 1..Len(user) /\ user'[n].main = user[n].main
          \/ ProvidedIn(user'[n].main, survey')
  <2>1. user \in Seq(UserType)
    BY DEF Sound, RowsOK
  <2>2. CASE AddUser(h)
    <3>1. user' = Append(user, r)
      BY <1>2, <2>2 DEF AddUser
    <3>2. QED
      BY <1>4, <2>1, <3>1
  <2>3. CASE SetUser(h)
    <3>1. PICK k : k = work[h].row
      OBVIOUS
    <3>2. k \in 1..Len(user)
      BY <2>3, <3>1, AtHand DEF SetUser, FitsIn
    <3>3. user' = user \/ user' = [user EXCEPT ![k] = r]
      BY <1>2, <2>3, <3>1 DEF SetUser
    <3>4. QED
      BY <1>4, <2>1, <3>2, <3>3
  <2>4. QED
    BY <2>2, <2>3
<1>6. PICK x : x = work'[h]
  OBVIOUS
<1>7. Goes(h, x)
  BY <1>6 DEF AddUser, SetUser, Done, At, Goes, Sound, WorkOK
<1>8. KeptIn(x, survey')
  <2>1. CASE AddUser(h)
    BY <1>6, <2>1, IdleKept, OneGoes DEF AddUser, Done
  <2>2. CASE SetUser(h)
    <3>1. x = [work[h] EXCEPT !.at = "reread"]
      BY <1>6, <2>2, OneGoes DEF SetUser, At
    <3>2. x.at = "reread" /\ x.twins = work[h].twins
      BY <3>1, AtFields DEF Steps
    <3>3. QED
      BY <1>1, <3>2, KeptAt DEF KeptIn, Linking
  <2>3. QED
    BY <2>1, <2>2
<1>9. \A g \in Slots : work'[g] = work[g] \/ KeptIn(work'[g], survey')
  BY <1>6, <1>7, <1>8, OneGoes
<1>10. QED
  BY <1>1, <1>5, <1>9, SameFirm, KeptStep

LEMMA InitKept ==
    ASSUME Init
    PROVE  SurveyInv
<1>1. Sound /\ user = <<>>
  BY InitSound DEF Init
<1>2. \A h \in Slots : work[h] = Idle
  BY DEF Init
<1>3. DefaultLeft
  <2>1. ASSUME NEW k \in 1..Len(survey), survey[k].flagged
        PROVE  \E o \in 1..Len(org) : DefaultsIn(o, survey) # {}
    <3>1. survey[k].org \in 1..Len(org)
      BY <1>1, SurveyFields
    <3>2. ~survey[k].deleted
      <4>1. PICK n \in {0, Flagged} :
              survey = [j \in 1..n |-> [org |-> 1, flagged |-> TRUE, deleted |-> FALSE, parts |-> Parts]]
        BY DEF Init
      <4>2. n \in Nat
        BY ConstantsAssumption
      <4>3. k \in 1..n
        BY <4>1, <4>2
      <4>4. QED
        BY <4>1, <4>3
    <3>3. k \in DefaultsIn(survey[k].org, survey)
      BY <2>1, <3>2 DEF DefaultsIn
    <3>4. QED
      BY <3>1, <3>3
  <2>2. QED
    BY <2>1 DEF DefaultLeft
<1>4. QED
  BY <1>1, <1>2, <1>3, IdleKept DEF SurveyInv, UsersProvided

LEMMA NextKept ==
    ASSUME Sound, Sound', SurveyInv, [Next]_vars
    PROVE  SurveyInv'
<1>1. ASSUME NEW h \in Slots, HandlerStep(h)
      PROVE  SurveyInv'
  BY <1>1, RequestsKept, UsersKept, FindOrgKept, OrgsKept, FindDefaultsKept, DedupeKept,
     CreateSurveyKept, CreatePartKept, FindsKept, LinksKept DEF HandlerStep
<1>2. CASE UNCHANGED vars
  BY <1>2 DEF SurveyInv, UsersProvided, DefaultLeft, vars, rows
<1>3. QED
  BY <1>1, <1>2, OutsideKept, ErrorsKept DEF Next

\* Whoever belongs to an organization finds a complete survey there, and an organization
\* keeps one of the surveys that were flagged as its default: of the duplicates every
\* handler deletes all but the oldest, and the oldest is the same for all of them.
THEOREM SurveysAreKept == Spec => []SurveyKept
<1>1. Init => Sound /\ SurveyInv
  BY InitSound, InitKept
<1>2. Sound /\ SurveyInv /\ [Next]_vars => (Sound /\ SurveyInv)'
  BY NextSound, NextKept
<1>3. Sound /\ SurveyInv => SurveyKept
  BY SurveyInvIsKept
<1>4. QED
  BY <1>1, <1>2, <1>3, PTL DEF Spec

-----------------------------------------------------------------------------
(* Twins                                                                     *)

Serves(h, c) == work[h].msg.cf = c

\* c is known under e, or soon will be.
Named(c, e) ==
    \/ \E n \in 1..Len(queue) : queue[n].cf = c /\ queue[n].email = e
    \/ \E h \in Slots : Serves(h, c) /\ work[h].msg.email = e
    \/ \E n \in RowsOf(c) : user[n].email = e

\* Of a user for whom one handler works and whose email stays, no row is added
\* beside another one.
UserOK(c) ==
    /\ \A h, g \in Slots : Serves(h, c) /\ Serves(g, c) => h = g
    /\ \A a, b \in Emails : Named(c, a) /\ Named(c, b) => a = b
    /\ \A h \in Slots : Serves(h, c) /\ work[h].at \in {"fetch", "adduser"} => RowsOf(c) = {}
    /\ \A m, n \in RowsOf(c) : m = n

OrgsOf(code) == {n \in 1..Len(org) : org[n].code = code}
Maker(code)  == IF code = "main" THEN "neworg" ELSE "newsub"

\* Nor of an organization.
OrgOK(code) ==
    /\ \A h, g \in Slots : code \in work[h].msg.given /\ code \in work[g].msg.given => h = g
    /\ \A h \in Slots : work[h].at = Maker(code) => OrgsOf(code) = {}
    /\ \A m, n \in OrgsOf(code) : m = n

\* What was announced last of a user is the last of the messages that wait.
LastQueued == \A n \in 1..Len(queue) : \E k \in n..Len(queue) : queue[k] = last[queue[n].cf]

\* A profile without a row is created under another user's id.
Strays == \A h \in Slots : work[h].at = "newprofile" => work[h].msg.cf \in moved

SingleUsers == LastQueued /\ Strays /\ \A c \in Cfs \ (overlapped \cup moved) : UserOK(c)
SingleOrgs  == \A code \in {"main", "sub"} \ raced : OrgOK(code)

TwinInv == SingleUsers /\ SingleOrgs

\* A set whose members are all equal has one at most.
LEMMA AtMostOne ==
    ASSUME NEW S, \A m, n \in S : m = n
    PROVE  Cardinality(S) <= 1
<1>1. CASE S = {}
  BY <1>1, FS_EmptySet
<1>2. CASE S # {}
  <2>1. PICK x : S = {x}
    BY <1>2
  <2>2. QED
    BY <2>1, FS_Singleton
<1>3. QED
  BY <1>1, <1>2

LEMMA TwinInvIsEnough ==
    ASSUME TwinInv
    PROVE  NoTwins
<1>1. ASSUME NEW c \in Cfs \ (overlapped \cup moved)
      PROVE  Cardinality(RowsOf(c)) <= 1
  BY AtMostOne DEF TwinInv, SingleUsers, UserOK
<1>2. ASSUME NEW code \in {"main", "sub"} \ raced
      PROVE  Cardinality({n \in 1..Len(org) : org[n].code = code}) <= 1
  <2>1. \A m, n \in OrgsOf(code) : m = n
    BY DEF TwinInv, SingleOrgs, OrgOK
  <2>2. Cardinality(OrgsOf(code)) <= 1
    BY <2>1, AtMostOne
  <2>3. QED
    BY <2>2 DEF OrgsOf
<1>3. QED
  BY <1>1, <1>2 DEF NoTwins

LEMMA EmailsNamed ==
    ASSUME NEW c, NEW e
    PROVE  Named(c, e) <=> e \in EmailsOf(c)
  BY DEF Named, EmailsOf, Serves

\* Nobody else begins to work for c, it gets no second email and no row.
LEMMA UserStays ==
    ASSUME Sound, NEW c \in Cfs, UserOK(c),
           \A g \in Slots : Serves(g, c)' => Serves(g, c),
           \A a, b \in Emails : Named(c, a)' /\ Named(c, b)' => a = b,
           RowsOf(c)' \subseteq RowsOf(c),
           \A g \in Slots : /\ Serves(g, c)' /\ work'[g].at \in {"fetch", "adduser"}
                            => work[g].at \in {"fetch", "adduser"} \/ RowsOf(c) = {}
    PROVE  UserOK(c)'
<1>1. (\A h, g \in Slots : Serves(h, c) /\ Serves(g, c) => h = g)'
  BY DEF UserOK
<1>2. (\A a, b \in Emails : Named(c, a) /\ Named(c, b) => a = b)'
  BY DEF UserOK
<1>3. (\A h \in Slots : Serves(h, c) /\ work[h].at \in {"fetch", "adduser"} => RowsOf(c) = {})'
  BY DEF UserOK
<1>4. (\A m, n \in RowsOf(c) : m = n)'
  BY DEF UserOK
<1>5. QED
  BY <1>1, <1>2, <1>3, <1>4 DEF UserOK

LEMMA OrgStays ==
    ASSUME Sound, NEW code, OrgOK(code), UNCHANGED org,
           \A g \in Slots : code \in work'[g].msg.given => code \in work[g].msg.given,
           \A g \in Slots : work'[g].at = Maker(code) => work[g].at = Maker(code) \/ OrgsOf(code) = {}
    PROVE  OrgOK(code)'
<1>1. OrgsOf(code)' = OrgsOf(code)
  BY DEF OrgsOf
<1>2. QED
  BY <1>1 DEF OrgOK

\* A step of one handler for the user it works for, or its end: it takes up no row
\* to add unless there is none, and adds none.
LEMMA QuietUsers ==
    ASSUME Sound, Sound', SingleUsers, UNCHANGED <<queue, last>>, NEW h \in Slots, NEW x, Goes(h, x),
           overlapped \subseteq overlapped', moved \subseteq moved',
           x.msg = work[h].msg \/ x.msg = NoMessage,
           x.at # "newprofile",
           \A c \in Cfs \ (overlapped \cup moved) :
              x.at \in {"fetch", "adduser"} /\ x.msg.cf = c => RowsOf(c) = {},
           \A c \in Cfs \ (overlapped \cup moved) :
              RowsOf(c)' \subseteq RowsOf(c) /\ \A n \in RowsOf(c)' : Named(c, user'[n].email)
    PROVE  SingleUsers'
<1>1. work'[h] = x /\ \A g \in Slots \ {h} : work'[g] = work[g]
  BY OneGoes
<1>2. NoMessage.cf = "none" /\ NoMessage.email = "none"
  BY IdleFields
<1>3. "none" \notin Cfs
  BY ConstantsAssumption
<1>4. LastQueued'
  BY DEF SingleUsers, LastQueued
<1>5. Strays'
  BY <1>1 DEF SingleUsers, Strays
<1>6. ASSUME NEW c \in Cfs \ (overlapped' \cup moved')
      PROVE  UserOK(c)'
  <2>1. c \in Cfs /\ UserOK(c) /\ c \notin overlapped \cup moved
    BY DEF SingleUsers
  <2>2. \A g \in Slots : Serves(g, c)' => Serves(g, c)
    BY <1>1, <1>2, <1>3 DEF Serves
  <2>3. ASSUME NEW e \in Emails, Named(c, e)'
        PROVE  Named(c, e)
    <3>1. CASE \E n \in 1..Len(queue) : queue[n].cf = c /\ queue[n].email = e
      BY <3>1 DEF Named
    <3>2. CASE \E g \in Slots : Serves(g, c)' /\ work'[g].msg.email = e
      <4>1. PICK g \in Slots : Serves(g, c)' /\ work'[g].msg.email = e
        BY <3>2
      <4>2. work'[g].msg = work[g].msg
        BY <1>1, <1>2, <1>3, <4>1 DEF Serves
      <4>3. QED
        BY <2>2, <4>1, <4>2 DEF Named
    <3>3. CASE \E n \in RowsOf(c)' : user'[n].email = e
      BY <2>1, <3>3
    <3>4. QED
      BY <2>3, <3>1, <3>2, <3>3 DEF Named
  <2>4. \A a, b \in Emails : Named(c, a)' /\ Named(c, b)' => a = b
    BY <2>1, <2>3 DEF UserOK
  <2>5. \A g \in Slots : Serves(g, c)' /\ work'[g].at \in {"fetch", "adduser"}
                         => work[g].at \in {"fetch", "adduser"} \/ RowsOf(c) = {}
    BY <1>1, <2>1 DEF Serves
  <2>6. RowsOf(c)' \subseteq RowsOf(c)
    BY <2>1
  <2>7. QED
    BY <2>1, <2>2, <2>4, <2>5, <2>6, UserStays
<1>7. QED
  BY <1>4, <1>5, <1>6 DEF SingleUsers

\* The same, of a step that writes to no user.
LEMMA QuietReaders ==
    ASSUME Sound, Sound', SingleUsers, UNCHANGED <<queue, user, last>>, NEW h \in Slots, NEW x, Goes(h, x),
           overlapped \subseteq overlapped', moved \subseteq moved',
           x.msg = work[h].msg \/ x.msg = NoMessage,
           x.at # "newprofile",
           \A c \in Cfs \ (overlapped \cup moved) :
              x.at \in {"fetch", "adduser"} /\ x.msg.cf = c => RowsOf(c) = {}
    PROVE  SingleUsers'
<1>1. \A c \in Cfs : RowsOf(c)' = RowsOf(c) /\ \A n \in RowsOf(c) : Named(c, user[n].email)
  BY DEF RowsOf, Named
<1>2. QED
  BY <1>1, QuietUsers

\* And of organizations.
LEMMA QuietOrgs ==
    ASSUME Sound, Sound', SingleOrgs, UNCHANGED org, NEW h \in Slots, NEW x, Goes(h, x),
           raced \subseteq raced',
           x.msg.given = work[h].msg.given \/ x.msg = NoMessage,
           \A code \in {"main", "sub"} : x.at = Maker(code) => OrgsOf(code) = {}
    PROVE  SingleOrgs'
<1>1. work'[h] = x /\ \A g \in Slots \ {h} : work'[g] = work[g]
  BY OneGoes
<1>2. NoMessage.given = {}
  BY IdleFields
<1>3. ASSUME NEW code \in {"main", "sub"} \ raced'
      PROVE  OrgOK(code)'
  <2>1. OrgOK(code)
    BY DEF SingleOrgs
  <2>2. \A g \in Slots : code \in work'[g].msg.given => code \in work[g].msg.given
    BY <1>1, <1>2
  <2>3. \A g \in Slots : work'[g].at = Maker(code) => work[g].at = Maker(code) \/ OrgsOf(code) = {}
    BY <1>1
  <2>4. QED
    BY <2>1, <2>2, <2>3, OrgStays
<1>4. QED
  BY <1>3 DEF SingleOrgs

LEMMA HistoryGrows ==
    ASSUME [Next]_vars
    PROVE  overlapped \subseteq overlapped' /\ moved \subseteq moved' /\ raced \subseteq raced'
<1>1. ASSUME NEW h \in Slots, HandlerStep(h)
      PROVE  overlapped \subseteq overlapped' /\ moved \subseteq moved' /\ raced \subseteq raced'
  BY <1>1 DEF HandlerStep, Seek, Fetch, Profile, NewProfile, SetProfile, FindDeleted, Deactivate, Destroy,
     FindOrg, CreateOrg, FindDefaults, Dedupe, CreateSurvey, CreatePart, FindSub, CreateSub, FindRow,
     AddUser, SetUser, Reread, history
<1>2. ASSUME NEW h \in Slots, NEW m, NEW l, Starts(h, m, l)
      PROVE  overlapped \subseteq overlapped' /\ raced \subseteq raced'
  BY <1>2 DEF Starts
<1>3. CASE UNCHANGED vars
  BY <1>3 DEF vars, history
<1>4. ASSUME NEW m \in Messages, Announce(m)
      PROVE  overlapped \subseteq overlapped' /\ moved \subseteq moved' /\ raced \subseteq raced'
  BY <1>4 DEF Announce
<1>5. ASSUME NEW h \in Slots, Deliver(h) \/ \E c \in Cfs : Visit(h, c) \/ \E e \in Emails : Edit(h, c, e)
      PROVE  overlapped \subseteq overlapped' /\ moved \subseteq moved' /\ raced \subseteq raced'
  <2>1. moved \subseteq moved'
    BY <1>5 DEF Deliver, Visit, Edit
  <2>2. \E m, l : Starts(h, m, l)
    BY <1>5 DEF Deliver, Visit, Edit
  <2>3. QED
    BY <1>2, <2>1, <2>2
<1>6. ASSUME Crash \/ \E h \in Slots : QueryFails(h)
      PROVE  overlapped \subseteq overlapped' /\ moved \subseteq moved' /\ raced \subseteq raced'
  BY <1>6 DEF Crash, QueryFails
<1>7. QED
  BY <1>1, <1>3, <1>4, <1>5, <1>6 DEF Next

\* Steps that leave alone the messages, the users and the organizations.
LEMMA LooksTwins ==
    ASSUME Sound, Sound', TwinInv, UNCHANGED <<queue, user, org, last>>, [Next]_vars,
           NEW h \in Slots, NEW x, Goes(h, x), x.msg = work[h].msg \/ x.msg = NoMessage,
           x.at \notin {"fetch", "adduser", "newprofile", "neworg", "newsub"}
    PROVE  TwinInv'
<1>1. SingleUsers'
  BY HistoryGrows, QuietReaders DEF TwinInv
<1>2. SingleOrgs'
  BY HistoryGrows, QuietOrgs DEF TwinInv, Maker
<1>3. QED
  BY <1>1, <1>2 DEF TwinInv

LEMMA DoneTwins ==
    ASSUME Sound, Sound', TwinInv, UNCHANGED <<queue, user, org, last>>, [Next]_vars,
           NEW h \in Slots, Done(h)
    PROVE  TwinInv'
  BY IdleFields, LooksTwins DEF Done

LEMMA AtTwins ==
    ASSUME Sound, Sound', TwinInv, UNCHANGED <<queue, user, org, last>>, [Next]_vars,
           NEW h \in Slots, NEW l \in Steps \ {"fetch", "adduser", "newprofile", "neworg", "newsub"}, At(h, l)
    PROVE  TwinInv'
<1>1. PICK x : x = [work[h] EXCEPT !.at = l]
  OBVIOUS
<1>2. x.at = l /\ x.msg = work[h].msg
  BY <1>1, AtFields
<1>3. QED
  BY <1>1, <1>2, LooksTwins DEF At

LEMMA SeekTwins ==
    ASSUME Sound, Sound', TwinInv, [Next]_vars, NEW h \in Slots, Seek(h)
    PROVE  TwinInv'
<1>1. UNCHANGED <<queue, user, org, last>>
  BY DEF Seek, rows
<1>2. CASE Done(h)
  BY <1>1, <1>2, DoneTwins
<1>3. CASE RowsOf(work[h].msg.cf) = {} /\ At(h, "fetch")
  <2>1. PICK x : x = [work[h] EXCEPT !.at = "fetch"]
    OBVIOUS
  <2>2. x.at = "fetch" /\ x.msg = work[h].msg /\ Goes(h, x)
    BY <1>3, <2>1, AtFields DEF Steps, At
  <2>3. SingleUsers'
    BY <1>1, <1>3, <2>2, HistoryGrows, QuietReaders DEF TwinInv
  <2>4. SingleOrgs'
    BY <1>1, <2>2, HistoryGrows, QuietOrgs DEF TwinInv, Maker
  <2>5. QED
    BY <2>3, <2>4 DEF TwinInv
<1>4. QED
  BY <1>2, <1>3 DEF Seek

\* One row of several with the same email is the only one.
LEMMA FindRowTwins ==
    ASSUME Sound, Sound', TwinInv, [Next]_vars, NEW h \in Slots, FindRow(h)
    PROVE  TwinInv'
<1>1. UNCHANGED <<queue, user, org, last>> /\ work[h].at = "user"
  BY DEF FindRow, rows
<1>2. PICK m : m = work[h].msg
  OBVIOUS
<1>3. PICK n : n = FindUser(m)
  OBVIOUS
<1>4. PICK x : x = [work[h] EXCEPT !.row = n, !.at = IF n = 0 THEN "adduser" ELSE "setuser"]
  OBVIOUS
<1>5. Goes(h, x)
  BY <1>2, <1>3, <1>4 DEF FindRow
<1>6. x.at = (IF n = 0 THEN "adduser" ELSE "setuser") /\ x.msg = m
  BY <1>2, <1>4, AtHand DEF WorkType
<1>7. ASSUME NEW c \in Cfs \ (overlapped \cup moved), x.at \in {"fetch", "adduser"}, x.msg.cf = c
      PROVE  RowsOf(c) = {}
  <2>1. n = 0 /\ m.cf = c
    BY <1>6, <1>7
  <2>2. m.email \in Emails
    BY <1>1, <1>2, AtHand DEF FitsIn, Sync
  <2>3. Named(c, m.email)
    BY <1>2, <2>1 DEF Named, Serves
  <2>4. UserOK(c)
    BY DEF TwinInv, SingleUsers
  <2>5. ASSUME NEW j \in RowsOf(c)
        PROVE  FALSE
    <3>1. user[j].email \in Emails /\ Named(c, user[j].email)
      BY UserFields DEF Named, RowsOf
    <3>2. user[j].email = m.email
      BY <2>2, <2>3, <2>4, <3>1 DEF UserOK
    <3>3. QED
      BY <1>3, <2>1, <3>2, FindUserIs
  <2>6. QED
    BY <2>5
<1>8. SingleUsers'
  BY <1>1, <1>2, <1>5, <1>6, <1>7, HistoryGrows, QuietReaders DEF TwinInv
<1>9. SingleOrgs'
  BY <1>1, <1>2, <1>5, <1>6, HistoryGrows, QuietOrgs DEF TwinInv, Maker
<1>10. QED
  BY <1>8, <1>9 DEF TwinInv

LEMMA FindOrgTwins ==
    ASSUME Sound, Sound', TwinInv, [Next]_vars, NEW h \in Slots, FindOrg(h) \/ FindSub(h)
    PROVE  TwinInv'
<1>1. UNCHANGED <<queue, user, org, last>>
  BY DEF FindOrg, FindSub, rows
<1>2. ASSUME NEW x, Goes(h, x), x.msg = work[h].msg,
             \/ x.at = "neworg" /\ OrgOf("main") = 0
             \/ x.at = "newsub" /\ OrgOf("sub") = 0
             \/ x.at \in {"defaults", "user"}
      PROVE  TwinInv'
  <2>1. \A code \in {"main", "sub"} : x.at = Maker(code) => OrgsOf(code) = {}
    BY <1>2, OrgOfTypes DEF Maker, OrgsOf
  <2>2. SingleUsers'
    BY <1>1, <1>2, HistoryGrows, QuietReaders DEF TwinInv
  <2>3. SingleOrgs'
    BY <1>1, <1>2, <2>1, HistoryGrows, QuietOrgs DEF TwinInv
  <2>4. QED
    BY <2>2, <2>3 DEF TwinInv
<1>3. CASE FindOrg(h)
  <2>1. PICK o : o = OrgOf("main")
    OBVIOUS
  <2>2. PICK x : x = [work[h] EXCEPT !.main = o, !.at = IF o = 0 THEN "neworg" ELSE "defaults"]
    OBVIOUS
  <2>3. x.at = (IF o = 0 THEN "neworg" ELSE "defaults") /\ x.msg = work[h].msg
    BY <2>2, AtHand DEF WorkType
  <2>4. Goes(h, x)
    BY <1>3, <2>1, <2>2 DEF FindOrg
  <2>5. QED
    BY <1>2, <2>1, <2>3, <2>4
<1>4. CASE FindSub(h)
  <2>1. PICK o : o = OrgOf("sub")
    OBVIOUS
  <2>2. PICK x : x = [work[h] EXCEPT !.sub = o, !.at = IF o = 0 THEN "newsub" ELSE "user"]
    OBVIOUS
  <2>3. x.at = (IF o = 0 THEN "newsub" ELSE "user") /\ x.msg = work[h].msg
    BY <2>2, AtHand DEF WorkType
  <2>4. Goes(h, x)
    BY <1>4, <2>1, <2>2 DEF FindSub
  <2>5. QED
    BY <1>2, <2>1, <2>3, <2>4
<1>5. QED
  BY <1>3, <1>4

LEMMA SurveysTwins ==
    ASSUME Sound, Sound', TwinInv, [Next]_vars, NEW h \in Slots,
           FindDefaults(h) \/ Dedupe(h) \/ CreateSurvey(h) \/ CreatePart(h)
    PROVE  TwinInv'
<1>1. UNCHANGED <<queue, user, org, last>>
  BY DEF FindDefaults, Dedupe, CreateSurvey, CreatePart, rows
<1>2. ASSUME NEW l, l \in {"survey", "dedupe", "parts", "sub", "user"}, NEW x,
             \/ \E T : x = [work[h] EXCEPT !.twins = T, !.at = l]
             \/ \E n : x = [work[h] EXCEPT !.at = l, !.row = n]
             \/ x = [work[h] EXCEPT !.at = l, !.twins = {}],
             Goes(h, x)
      PROVE  TwinInv'
  <2>1. x.at = l /\ x.msg = work[h].msg
    BY <1>2, AtHand DEF WorkType
  <2>2. QED
    BY <1>1, <1>2, <2>1, LooksTwins
<1>3. AfterOrg(h) \in {"sub", "user"}
  BY AfterOrgIs
<1>4. CASE FindDefaults(h)
  <2>1. PICK S : S = Defaults(work[h].main)
    OBVIOUS
  <2>2. PICK T : T = S \ {First(S)}
    OBVIOUS
  <2>3. PICK l : l = IF S = {} THEN "survey" ELSE IF Cardinality(S) > 1 THEN "dedupe" ELSE AfterOrg(h)
    OBVIOUS
  <2>4. PICK x : x = [work[h] EXCEPT !.twins = T, !.at = l]
    OBVIOUS
  <2>5. Goes(h, x)
    BY <1>4, <2>1, <2>2, <2>3, <2>4 DEF FindDefaults
  <2>6. l \in {"survey", "dedupe", "parts", "sub", "user"}
    BY <1>3, <2>3
  <2>7. QED
    BY <1>2, <2>4, <2>5, <2>6
<1>5. CASE Dedupe(h)
  BY <1>2, <1>3, <1>5 DEF Dedupe
<1>6. CASE CreateSurvey(h)
  BY <1>2, <1>6 DEF CreateSurvey
<1>7. CASE CreatePart(h)
  <2>1. Goes(h, work[h]) \/ Goes(h, [work[h] EXCEPT !.at = AfterOrg(h), !.row = 0])
    BY <1>7 DEF CreatePart
  <2>2. CASE Goes(h, work[h])
    BY <1>1, <1>7, <2>2, LooksTwins DEF CreatePart
  <2>3. QED
    BY <1>2, <1>3, <2>1, <2>2
<1>8. QED
  BY <1>4, <1>5, <1>6, <1>7

LEMMA ErrorsTwins ==
    ASSUME Sound, Sound', TwinInv, [Next]_vars, Crash \/ \E h \in Slots : QueryFails(h)
    PROVE  TwinInv'
<1>1. UNCHANGED <<queue, user, org, last, overlapped, raced, moved>>
  BY DEF Crash, QueryFails, rows
<1>2. ASSUME Exit
      PROVE  TwinInv'
  <2>1. \A g \in Slots : work'[g] = Idle
    BY <1>2 DEF Exit
  <2>2. /\ Idle.at = "idle" /\ Idle.msg = NoMessage /\ NoMessage.cf = "none" /\ NoMessage.email = "none"
        /\ NoMessage.given = {} /\ "none" \notin Cfs
    BY IdleFields, ConstantsAssumption
  <2>3. LastQueued' /\ Strays'
    BY <1>1, <2>1, <2>2 DEF TwinInv, SingleUsers, LastQueued, Strays
  <2>4. ASSUME NEW c \in Cfs \ (overlapped \cup moved)
        PROVE  UserOK(c)'
    <3>1. UserOK(c)
      BY DEF TwinInv, SingleUsers
    <3>2. \A g \in Slots : ~Serves(g, c)'
      BY <2>1, <2>2 DEF Serves
    <3>3. RowsOf(c)' = RowsOf(c)
      BY <1>1 DEF RowsOf
    <3>4. \A e \in Emails : Named(c, e)' => Named(c, e)
      BY <1>1, <3>2, <3>3 DEF Named
    <3>5. \A a, b \in Emails : Named(c, a)' /\ Named(c, b)' => a = b
      BY <3>1, <3>4 DEF UserOK
    <3>6. QED
      BY <3>1, <3>2, <3>3, <3>5, UserStays
  <2>5. ASSUME NEW code \in {"main", "sub"} \ raced
        PROVE  OrgOK(code)'
    <3>1. OrgOK(code)
      BY DEF TwinInv, SingleOrgs
    <3>2. \A g \in Slots : code \notin work'[g].msg.given /\ work'[g].at # Maker(code)
      BY <2>1, <2>2 DEF Maker
    <3>3. QED
      BY <1>1, <3>1, <3>2, OrgStays
  <2>6. QED
    BY <1>1, <2>3, <2>4, <2>5 DEF TwinInv, SingleUsers, SingleOrgs
<1>3. ASSUME NEW h \in Slots, QueryFails(h)
      PROVE  TwinInv'
  <2>1. CASE Done(h)
    BY <1>1, <2>1, DoneTwins
  <2>2. CASE At(h, "user")
    BY <1>1, <2>2, AtTwins DEF Steps
  <2>3. ASSUME Goes(h, [Idle EXCEPT !.at = Begin(work[h].msg), !.msg = work[h].msg, !.try = work[h].try - 1])
        PROVE  TwinInv'
    <3>1. PICK x : x = [Idle EXCEPT !.at = Begin(work[h].msg), !.msg = work[h].msg, !.try = work[h].try - 1]
      OBVIOUS
    <3>2. x.msg = work[h].msg /\ x.at \in {"org", "sub", "user"}
      BY <3>1, IdleFields DEF WorkType, Begin
    <3>3. QED
      BY <1>1, <2>3, <3>1, <3>2, LooksTwins
  <2>4. QED
    BY <1>2, <1>3, <2>1, <2>2, <2>3 DEF QueryFails
<1>4. QED
  BY <1>2, <1>3 DEF Crash

\* Rows are rewritten in place, of one user, with an email it is known under.
LEMMA RewritesTwins ==
    ASSUME Sound, Sound', TwinInv, [Next]_vars, UNCHANGED <<queue, org, last>>,
           NEW h \in Slots, NEW x, Goes(h, x), x = Idle \/ x = [work[h] EXCEPT !.at = "reread"],
           Len(user') = Len(user),
           \A n \in 1..Len(user) :
              \/ user'[n].cf = "none"
              \/ /\ user'[n].cf = user[n].cf
                 /\ user'[n].email = user[n].email \/ (Serves(h, user[n].cf) /\ user'[n].email = work[h].msg.email)
    PROVE  TwinInv'
<1>1. x.at \notin {"fetch", "adduser", "newprofile", "neworg", "newsub"}
      /\ (x.msg = work[h].msg \/ x.msg = NoMessage)
  BY IdleFields, AtFields DEF Steps
<1>2. ASSUME NEW c \in Cfs
      PROVE  RowsOf(c)' \subseteq RowsOf(c) /\ \A n \in RowsOf(c)' : Named(c, user'[n].email)
  <2>1. c # "none"
    BY ConstantsAssumption
  <2>2. RowsOf(c)' \subseteq RowsOf(c)
    BY <2>1 DEF RowsOf
  <2>3. ASSUME NEW n \in RowsOf(c)'
        PROVE  Named(c, user'[n].email)
    <3>1. n \in 1..Len(user) /\ user'[n].cf = c /\ n \in RowsOf(c) /\ user[n].cf = c
      BY <2>2 DEF RowsOf
    <3>2. CASE user'[n].email = user[n].email
      BY <3>1, <3>2 DEF Named
    <3>3. CASE Serves(h, c) /\ user'[n].email = work[h].msg.email
      BY <3>3 DEF Named
    <3>4. QED
      BY <2>1, <3>1, <3>2, <3>3
  <2>4. QED
    BY <2>2, <2>3
<1>3. SingleUsers'
  BY <1>1, <1>2, HistoryGrows, QuietUsers DEF TwinInv
<1>4. SingleOrgs'
  BY <1>1, HistoryGrows, QuietOrgs DEF TwinInv, Maker
<1>5. QED
  BY <1>3, <1>4 DEF TwinInv

LEMMA InPlaceTwins ==
    ASSUME Sound, Sound', TwinInv, [Next]_vars, NEW h \in Slots, SetProfile(h) \/ Deactivate(h) \/ Destroy(h)
    PROVE  TwinInv'
<1>1. UNCHANGED <<queue, org, last>> /\ Goes(h, Idle)
  BY DEF SetProfile, Deactivate, Destroy, Done
<1>2. Len(user') = Len(user)
  <2>1. Len(user) \in Nat /\ DOMAIN user' = 1..Len(user)
    BY Lengths DEF SetProfile, Deactivate, Destroy
  <2>2. QED
    BY <2>1, LenProperties DEF Sound, RowsOK
<1>3. ASSUME NEW n \in 1..Len(user)
      PROVE  \/ user'[n].cf = "none"
             \/ /\ user'[n].cf = user[n].cf
                /\ user'[n].email = user[n].email \/ (Serves(h, user[n].cf) /\ user'[n].email = work[h].msg.email)
  <2>1. user[n] \in UserType
    BY UserFields
  <2>2. PICK r : r = user[n]
    OBVIOUS
  <2>3. PICK e : e = work[h].msg.email
    OBVIOUS
  <2>4. /\ [r EXCEPT !.email = e].cf = r.cf /\ [r EXCEPT !.email = e].email = e
        /\ [r EXCEPT !.active = FALSE].cf = r.cf /\ [r EXCEPT !.active = FALSE].email = r.email
        /\ [r EXCEPT !.cf = "none"].cf = "none"
    BY <2>1, <2>2 DEF UserType
  <2>5. \/ user'[n] = r
        \/ user'[n] = [r EXCEPT !.email = e] /\ n \in RowsOf(work[h].msg.cf)
        \/ user'[n] = [r EXCEPT !.active = FALSE]
        \/ user'[n] = [r EXCEPT !.cf = "none"]
    BY <2>2, <2>3 DEF SetProfile, Deactivate, Destroy
  <2>6. n \in RowsOf(work[h].msg.cf) => Serves(h, user[n].cf)
    BY DEF RowsOf, Serves
  <2>7. QED
    BY <2>2, <2>3, <2>4, <2>5, <2>6
<1>4. QED
  BY <1>1, <1>2, <1>3, RewritesTwins

LEMMA SetUserTwins ==
    ASSUME Sound, Sound', TwinInv, [Next]_vars, NEW h \in Slots, SetUser(h)
    PROVE  TwinInv'
<1>1. work[h].at = "setuser" /\ UNCHANGED <<queue, org, last>>
  BY DEF SetUser
<1>2. PICK x : x = [work[h] EXCEPT !.at = "reread"]
  OBVIOUS
<1>3. Goes(h, x)
  BY <1>2 DEF SetUser, At
<1>4. PICK r : r = NewUser(work[h].msg, work[h].main, work[h].sub)
  OBVIOUS
<1>5. r \in UserType /\ r.cf = work[h].msg.cf /\ r.email = work[h].msg.email
  BY <1>1, <1>4, SyncedUser
<1>6. PICK k : k = work[h].row
  OBVIOUS
<1>7. k \in 1..Len(user) /\ user[k].cf \in {work[h].msg.cf, "none"}
  BY <1>1, <1>6, AtHand DEF FitsIn
<1>8. user' = user \/ (user[k].cf # "none" /\ user' = [user EXCEPT ![k] = r])
  BY <1>4, <1>6 DEF SetUser
<1>9. user \in Seq(UserType)
  BY DEF Sound, RowsOK
<1>10. Len(user') = Len(user)
  BY <1>5, <1>7, <1>8, <1>9
<1>11. ASSUME NEW n \in 1..Len(user)
       PROVE  \/ user'[n].cf = "none"
              \/ /\ user'[n].cf = user[n].cf
                 /\ user'[n].email = user[n].email \/ (Serves(h, user[n].cf) /\ user'[n].email = work[h].msg.email)
  <2>1. CASE user'[n] = user[n]
    BY <2>1
  <2>2. CASE user'[n] # user[n]
    <3>1. n = k /\ user'[n] = r /\ user[n].cf = work[h].msg.cf
      BY <1>7, <1>8, <1>9, <2>2
    <3>2. QED
      BY <1>5, <3>1 DEF Serves
  <2>3. QED
    BY <2>1, <2>2
<1>12. QED
  BY <1>1, <1>2, <1>3, <1>10, <1>11, RewritesTwins

\* A row is added: of whom there is none, or of whom the id or the email was changed.
LEMMA AppendsTwins ==
    ASSUME Sound, Sound', TwinInv, [Next]_vars, UNCHANGED <<queue, org, last>>, NEW h \in Slots, Done(h),
           NEW r, user' = Append(user, r), Serves(h, r.cf), r.email = work[h].msg.email, r.cf \in Cfs,
           work[h].at \in {"adduser", "newprofile"}
    PROVE  TwinInv'
<1>1. work'[h] = Idle /\ \A g \in Slots \ {h} : work'[g] = work[g]
  BY OneGoes DEF Done
<1>2. /\ Idle.at = "idle" /\ Idle.msg = NoMessage /\ NoMessage.cf = "none" /\ NoMessage.email = "none"
      /\ NoMessage.given = {} /\ "none" \notin Cfs
  BY IdleFields, ConstantsAssumption
<1>3. user \in Seq(UserType) /\ Len(user) \in Nat
  BY Lengths DEF Sound, RowsOK
<1>4. /\ Len(user') = Len(user) + 1 /\ user'[Len(user) + 1] = r
      /\ \A n \in 1..Len(user) : user'[n] = user[n]
  BY <1>3
<1>5. overlapped \subseteq overlapped' /\ moved \subseteq moved'
  BY HistoryGrows
<1>6. LastQueued'
  BY DEF TwinInv, SingleUsers, LastQueued
<1>7. Strays'
  BY <1>1, <1>2, <1>5 DEF TwinInv, SingleUsers, Strays
<1>8. ASSUME NEW c \in Cfs \ (overlapped' \cup moved')
      PROVE  UserOK(c)'
  <2>1. UserOK(c) /\ c \notin moved
    BY <1>5 DEF TwinInv, SingleUsers
  <2>2. \A g \in Slots : Serves(g, c)' => Serves(g, c) /\ g # h /\ work'[g] = work[g]
    BY <1>1, <1>2 DEF Serves
  <2>3. ASSUME r.cf # c
        PROVE  UserOK(c)'
    <3>1. RowsOf(c)' = RowsOf(c) /\ \A n \in RowsOf(c) : user'[n] = user[n]
      BY <1>3, <1>4, <2>3 DEF RowsOf
    <3>2. \A e \in Emails : Named(c, e)' => Named(c, e)
      BY <2>2, <3>1 DEF Named
    <3>3. \A a, b \in Emails : Named(c, a)' /\ Named(c, b)' => a = b
      BY <2>1, <3>2 DEF UserOK
    <3>4. \A g \in Slots : Serves(g, c)' /\ work'[g].at \in {"fetch", "adduser"}
                           => work[g].at \in {"fetch", "adduser"} \/ RowsOf(c) = {}
      BY <2>2
    <3>5. QED
      BY <2>1, <2>2, <3>1, <3>3, <3>4, UserStays
  <2>4. ASSUME r.cf = c
        PROVE  UserOK(c)'
    <3>1. work[h].at = "adduser"
      BY <2>1, <2>4 DEF TwinInv, SingleUsers, Strays, Serves
    <3>2. RowsOf(c) = {}
      BY <2>1, <2>4, <3>1 DEF UserOK
    <3>3. RowsOf(c)' = {Len(user) + 1}
      BY <1>3, <1>4, <2>4, <3>2 DEF RowsOf
    <3>4. \A g \in Slots : ~Serves(g, c)'
      BY <2>1, <2>2, <2>4 DEF UserOK
    <3>5. ASSUME NEW e \in Emails, Named(c, e)'
          PROVE  Named(c, e)
      <4>1. CASE \E n \in 1..Len(queue) : queue[n].cf = c /\ queue[n].email = e
        BY <4>1 DEF Named
      <4>2. CASE \E n \in RowsOf(c)' : user'[n].email = e
        BY <1>4, <2>4, <3>3, <4>2 DEF Named
      <4>3. QED
        BY <3>4, <3>5, <4>1, <4>2 DEF Named
    <3>6. (\A a, b \in Emails : Named(c, a) /\ Named(c, b) => a = b)'
      BY <2>1, <3>5 DEF UserOK
    <3>7. (\A m, n \in RowsOf(c) : m = n)'
      BY <3>3
    <3>8. (\A f, g \in Slots : Serves(f, c) /\ Serves(g, c) => f = g)'
      BY <3>4
    <3>9. (\A g \in Slots : Serves(g, c) /\ work[g].at \in {"fetch", "adduser"} => RowsOf(c) = {})'
      BY <3>4
    <3>10. QED
      BY <3>6, <3>7, <3>8, <3>9 DEF UserOK
  <2>5. QED
    BY <2>3, <2>4
<1>9. SingleOrgs'
  BY <1>2, HistoryGrows, QuietOrgs DEF TwinInv, Maker, Done
<1>10. QED
  BY <1>6, <1>7, <1>8, <1>9 DEF TwinInv, SingleUsers

LEMMA AddsTwins ==
    ASSUME Sound, Sound', TwinInv, [Next]_vars, NEW h \in Slots, AddUser(h) \/ NewProfile(h)
    PROVE  TwinInv'
<1>1. UNCHANGED <<queue, org, last>> /\ Done(h) /\ work[h].at \in {"adduser", "newprofile"}
  BY DEF AddUser, NewProfile
<1>2. work[h].msg \in MsgType /\ work[h].msg.cf \in Cfs /\ work[h].msg.email \in Emails
  BY <1>1, AtHand DEF FitsIn, Sync, Profiling
<1>3. \E a, b \in 0..Len(org) : user' = Append(user, NewUser(work[h].msg, a, b))
  BY AtHand, Lengths DEF AddUser, NewProfile
<1>4. PICK a \in 0..Len(org), b \in 0..Len(org) : user' = Append(user, NewUser(work[h].msg, a, b))
  BY <1>3
<1>5. PICK r : r = NewUser(work[h].msg, a, b)
  OBVIOUS
<1>6. r.cf = work[h].msg.cf /\ r.email = work[h].msg.email
  BY <1>2, <1>5, NewUserType
<1>7. QED
  BY <1>1, <1>2, <1>4, <1>5, <1>6, AppendsTwins DEF Serves

\* An organization is added of which there is none, by the one handler it was given to.
LEMMA OrgsTwins ==
    ASSUME Sound, Sound', TwinInv, [Next]_vars, NEW h \in Slots, CreateOrg(h) \/ CreateSub(h)
    PROVE  TwinInv'
<1>1. UNCHANGED <<queue, user, last>>
  BY DEF CreateOrg, CreateSub
<1>2. PICK made : made = IF work[h].at = "neworg" THEN "main" ELSE "sub"
  OBVIOUS
<1>3. /\ made \in {"main", "sub"} /\ work[h].at = Maker(made)
      /\ \E r : org' = Append(org, r) /\ r.code = made
  BY <1>2 DEF CreateOrg, CreateSub, Maker
<1>4. PICK r : org' = Append(org, r) /\ r.code = made
  BY <1>3
<1>5. org \in Seq(OrgType) /\ Len(org) \in Nat
  BY Lengths DEF Sound, RowsOK
<1>6. PICK x : Goes(h, x) /\ x.msg = work[h].msg /\ x.at \in {"defaults", "user"}
  <2>1. PICK y : y = [work[h] EXCEPT !.main = Len(org) + 1, !.at = "defaults"]
    OBVIOUS
  <2>2. PICK z : z = [work[h] EXCEPT !.sub = Len(org) + 1, !.at = "user"]
    OBVIOUS
  <2>3. y.msg = work[h].msg /\ y.at = "defaults" /\ z.msg = work[h].msg /\ z.at = "user"
    BY <2>1, <2>2, AtHand DEF WorkType
  <2>4. Goes(h, y) \/ Goes(h, z)
    BY <2>1, <2>2 DEF CreateOrg, CreateSub
  <2>5. QED
    BY <2>3, <2>4
<1>7. SingleUsers'
  BY <1>1, <1>6, HistoryGrows, QuietReaders DEF TwinInv
<1>8. work'[h] = x /\ \A g \in Slots \ {h} : work'[g] = work[g]
  BY <1>6, OneGoes
<1>9. raced \subseteq raced'
  BY HistoryGrows
<1>10. ASSUME NEW code \in {"main", "sub"} \ raced'
       PROVE  OrgOK(code)'
  <2>1. OrgOK(code)
    BY <1>9 DEF TwinInv, SingleOrgs
  <2>2. (\A f, g \in Slots : code \in work[f].msg.given /\ code \in work[g].msg.given => f = g)'
    BY <1>6, <1>8, <2>1 DEF OrgOK
  <2>3. \A g \in Slots : work[g].at = Maker(code) => code \in work[g].msg.given
    BY AtHand DEF FitsIn, Maker
  <2>4. CASE code = made
    <3>1. OrgsOf(code) = {} /\ code \in work[h].msg.given
      BY <1>3, <2>1, <2>3, <2>4 DEF OrgOK
    <3>2. OrgsOf(code)' = {Len(org) + 1}
      BY <1>4, <1>5, <2>4, <3>1 DEF OrgsOf
    <3>3. \A g \in Slots : work'[g].at # Maker(code)
      BY <1>6, <1>8, <2>1, <2>3, <3>1 DEF OrgOK, Maker
    <3>4. (\A m, n \in OrgsOf(code) : m = n)'
      BY <3>2
    <3>5. QED
      BY <2>2, <3>3, <3>4 DEF OrgOK
  <2>5. CASE code # made
    <3>1. OrgsOf(code)' = OrgsOf(code)
      BY <1>4, <1>5, <2>5 DEF OrgsOf
    <3>2. \A g \in Slots : work'[g].at = Maker(code) => work[g].at = Maker(code)
      BY <1>6, <1>8 DEF Maker
    <3>3. QED
      BY <2>1, <2>2, <3>1, <3>2 DEF OrgOK
  <2>6. QED
    BY <2>4, <2>5
<1>11. QED
  BY <1>7, <1>10 DEF TwinInv, SingleOrgs

LEMMA OthersTwins ==
    ASSUME Sound, Sound', TwinInv, [Next]_vars, NEW h \in Slots, FindDeleted(h) \/ Reread(h)
    PROVE  TwinInv'
<1>1. UNCHANGED <<queue, user, org, last>>
  BY DEF FindDeleted, Reread, rows
<1>2. Done(h) \/ At(h, "deactivate") \/ At(h, "destroy")
  BY DEF FindDeleted, Reread
<1>3. QED
  BY <1>1, <1>2, DoneTwins, AtTwins DEF Steps

\* The id of whoever asks is taken: nothing more is said of it.
LEMMA ProfileTwins ==
    ASSUME Sound, Sound', TwinInv, [Next]_vars, NEW h \in Slots, NEW caller \in Cfs, Profile(h, caller)
    PROVE  TwinInv'
<1>1. UNCHANGED <<queue, user, org, last, overlapped, raced>> /\ work[h].at = "profile"
  BY DEF Profile, rows
<1>2. CASE At(h, "setprofile")
  BY <1>1, <1>2, AtTwins DEF Steps
<1>3. CASE /\ Goes(h, [work[h] EXCEPT !.at = "newprofile", !.msg.cf = caller])
           /\ moved' = moved \cup {caller}
  <2>1. PICK x : x = [work[h] EXCEPT !.at = "newprofile", !.msg.cf = caller]
    OBVIOUS
  <2>2. PICK m : m = work[h].msg
    OBVIOUS
  <2>3. PICK n : n = [m EXCEPT !.cf = caller]
    OBVIOUS
  <2>4. n.cf = caller /\ n.email = m.email /\ n.given = m.given
    BY <2>2, <2>3, AtHand DEF MsgType
  <2>5. x = [work[h] EXCEPT !.at = "newprofile", !.msg = n]
    BY <2>1, <2>2, <2>3
  <2>6. x.at = "newprofile" /\ x.msg = n
    BY <2>5, AtHand DEF WorkType
  <2>7. Goes(h, x)
    BY <1>3, <2>1
  <2>8. work'[h] = x /\ \A g \in Slots \ {h} : work'[g] = work[g]
    BY <2>7, OneGoes
  <2>9. LastQueued'
    BY <1>1 DEF TwinInv, SingleUsers, LastQueued
  <2>10. Strays'
    BY <1>3, <2>4, <2>6, <2>8 DEF TwinInv, SingleUsers, Strays
  <2>11. ASSUME NEW c \in Cfs \ (overlapped' \cup moved')
         PROVE  UserOK(c)'
    <3>1. UserOK(c) /\ c # caller
      BY <1>1, <1>3 DEF TwinInv, SingleUsers
    <3>2. \A g \in Slots : Serves(g, c)' => Serves(g, c) /\ work'[g] = work[g]
      BY <2>4, <2>6, <2>8, <3>1 DEF Serves
    <3>3. RowsOf(c)' = RowsOf(c)
      BY <1>1 DEF RowsOf
    <3>4. \A e \in Emails : Named(c, e)' => Named(c, e)
      BY <1>1, <3>2, <3>3 DEF Named
    <3>5. \A a, b \in Emails : Named(c, a)' /\ Named(c, b)' => a = b
      BY <3>1, <3>4 DEF UserOK
    <3>6. \A g \in Slots : Serves(g, c)' /\ work'[g].at \in {"fetch", "adduser"}
                           => work[g].at \in {"fetch", "adduser"} \/ RowsOf(c) = {}
      BY <3>2
    <3>7. QED
      BY <3>1, <3>2, <3>3, <3>5, <3>6, UserStays
  <2>12. SingleOrgs'
    <3>1. x.msg.given = work[h].msg.given
      BY <2>2, <2>4, <2>6
    <3>2. \A code \in {"main", "sub"} : x.at # Maker(code)
      BY <2>6 DEF Maker
    <3>3. QED
      BY <1>1, <2>7, <3>1, <3>2, QuietOrgs DEF TwinInv
  <2>13. QED
    BY <2>9, <2>10, <2>11, <2>12 DEF TwinInv, SingleUsers
<1>4. QED
  BY <1>2, <1>3 DEF Profile

\* The API answers what was announced last.  If a message of the user still waits, so
\* does that one: the email is not a new one.
LEMMA FetchTwins ==
    ASSUME Sound, Sound', TwinInv, [Next]_vars, NEW h \in Slots, Fetch(h)
    PROVE  TwinInv'
<1>1. UNCHANGED <<queue, user, org, last, overlapped, moved>> /\ work[h].at = "fetch"
  BY DEF Fetch, rows
<1>2. PICK d : d = work[h].msg.cf
  OBVIOUS
<1>3. PICK m : m = last[d]
  OBVIOUS
<1>4. CASE Done(h)
  BY <1>1, <1>4, DoneTwins
<1>5. CASE ~Done(h)
  <2>1. PICK n : n = [m EXCEPT !.kind = "visit", !.given = {"main"}]
    OBVIOUS
  <2>2. PICK x : x = [work[h] EXCEPT !.at = Begin(n), !.msg = n]
    OBVIOUS
  <2>3. /\ m.kind = "sync" /\ Goes(h, x)
        /\ raced' = raced \cup UNION {work[g].msg.given \cap n.given : g \in Slots \ {h}}
    BY <1>2, <1>3, <1>5, <2>1, <2>2 DEF Fetch
  <2>4. d \in Cfs /\ work[h].msg.email = "none"
    BY <1>1, <1>2, AtHand DEF FitsIn
  <2>5. m \in Messages /\ m.cf = d
    BY <1>3, <2>3, <2>4, IdleFields DEF Sound, RestOK
  <2>6. m \in MsgType /\ m.email \in Emails
    BY <2>3, <2>5, MessageFields
  <2>7. n.cf = d /\ n.email = m.email /\ n.given = {"main"}
    BY <2>1, <2>5, <2>6 DEF MsgType
  <2>8. x.at = "org" /\ x.msg = n
    BY <2>2, <2>7, AtHand DEF WorkType, Begin
  <2>9. work'[h] = x /\ \A g \in Slots \ {h} : work'[g] = work[g]
    BY <2>3, OneGoes
  <2>10. LastQueued' /\ Strays'
    BY <1>1, <2>8, <2>9 DEF TwinInv, SingleUsers, LastQueued, Strays
  <2>11. ASSUME NEW c \in Cfs \ (overlapped \cup moved)
         PROVE  UserOK(c)'
    <3>1. UserOK(c)
      BY DEF TwinInv, SingleUsers
    <3>2. \A g \in Slots : Serves(g, c)' => Serves(g, c)
      BY <1>2, <2>7, <2>8, <2>9 DEF Serves
    <3>3. RowsOf(c)' = RowsOf(c)
      BY <1>1 DEF RowsOf
    <3>4. \A g \in Slots : Serves(g, c)' /\ work'[g].at \in {"fetch", "adduser"}
                           => work[g].at \in {"fetch", "adduser"} \/ RowsOf(c) = {}
      BY <2>8, <2>9
    <3>5. \A a, b \in Emails : Named(c, a)' /\ Named(c, b)' => a = b
      <4>1. CASE c # d
        <5>1. \A g \in Slots : Serves(g, c)' => work'[g] = work[g]
          BY <2>7, <2>8, <2>9, <4>1 DEF Serves
        <5>2. \A e \in Emails : Named(c, e)' => Named(c, e)
          BY <1>1, <3>2, <3>3, <5>1 DEF Named
        <5>3. QED
          BY <3>1, <5>2 DEF UserOK
      <4>2. CASE c = d
        <5>1. RowsOf(c) = {} /\ \A g \in Slots : Serves(g, c) => g = h
          BY <1>1, <1>2, <3>1, <4>2 DEF UserOK, Serves
        <5>2. \A e \in Emails : Named(c, e)' =>
                 e = m.email \/ \E k \in 1..Len(queue) : queue[k].cf = c /\ queue[k].email = e
          BY <1>1, <2>7, <2>8, <2>9, <3>2, <3>3, <5>1 DEF Named
        <5>3. ASSUME NEW k \in 1..Len(queue), queue[k].cf = c
              PROVE  Named(c, m.email)
          <6>1. PICK j \in k..Len(queue) : queue[j] = last[queue[k].cf]
            BY DEF TwinInv, SingleUsers, LastQueued
          <6>2. queue[j] = m /\ j \in 1..Len(queue)
            BY <1>3, <4>2, <5>3, <6>1, Lengths
          <6>3. QED
            BY <2>5, <4>2, <6>2 DEF Named
        <5>4. \A k \in 1..Len(queue) : queue[k].cf = c => Named(c, queue[k].email)
          BY DEF Named
        <5>5. ASSUME NEW e \in Emails, Named(c, e)'
              PROVE  e = m.email
          <6>1. CASE \E k \in 1..Len(queue) : queue[k].cf = c /\ queue[k].email = e
            BY <2>6, <3>1, <5>3, <5>4, <6>1 DEF UserOK
          <6>2. QED
            BY <5>2, <5>5, <6>1
        <5>6. QED
          BY <5>5
      <4>3. QED
        BY <4>1, <4>2
    <3>6. QED
      BY <3>1, <3>2, <3>3, <3>4, <3>5, UserStays
  <2>12. ASSUME NEW code \in {"main", "sub"} \ raced'
         PROVE  OrgOK(code)'
    <3>1. OrgOK(code) /\ raced \subseteq raced'
      BY <2>3 DEF TwinInv, SingleOrgs
    <3>2. code \in n.given => \A g \in Slots \ {h} : code \notin work[g].msg.given
      BY <2>3
    <3>3. (\A f, g \in Slots : code \in work[f].msg.given /\ code \in work[g].msg.given => f = g)'
      BY <2>8, <2>9, <3>1, <3>2 DEF OrgOK
    <3>4. OrgsOf(code)' = OrgsOf(code)
      BY <1>1 DEF OrgsOf
    <3>5. \A g \in Slots : work'[g].at = Maker(code) => work[g].at = Maker(code)
      BY <2>8, <2>9 DEF Maker
    <3>6. QED
      BY <3>1, <3>3, <3>4, <3>5 DEF OrgOK
  <2>13. QED
    BY <1>1, <2>10, <2>11, <2>12 DEF TwinInv, SingleUsers, SingleOrgs
<1>6. QED
  BY <1>4, <1>5

-----------------------------------------------------------------------------
(* Twins: messages and requests                                              *)

\* Work begins on a message: for a user whom nobody works for, or it is written down.
LEMMA StartsTwins ==
    ASSUME Sound, Sound', TwinInv, NEW h \in Slots, NEW m \in MsgType, m.cf \in Cfs,
           NEW l, l \in {"seek", "profile", "remove", "erase", "org", "sub", "user"},
           Starts(h, m, l), UNCHANGED <<user, org>>, moved \subseteq moved', LastQueued',
           \A c \in Cfs \ (overlapped' \cup moved') :
              \A a, b \in Emails : Named(c, a)' /\ Named(c, b)' => a = b
    PROVE  TwinInv'
<1>1. PICK x : x = Start(m, l, Tries)
  OBVIOUS
<1>2. Goes(h, x) /\ ~Busy(h)
  BY <1>1 DEF Starts, Start
<1>3. x.at = l /\ x.msg = m
  BY <1>1, IdleFields DEF Start, WorkType
<1>4. work'[h] = x /\ \A g \in Slots \ {h} : work'[g] = work[g]
  BY <1>2, OneGoes
<1>5. \A g \in Slots : ~Busy(g) => work[g].msg.cf \notin Cfs /\ work[g].msg.given = {}
  BY AtHand, IdleFields, ConstantsAssumption DEF FitsIn, Busy
<1>6. overlapped \subseteq overlapped' /\ raced \subseteq raced'
  BY DEF Starts
<1>7. Strays'
  BY <1>3, <1>4 DEF TwinInv, SingleUsers, Strays
<1>8. ASSUME NEW c \in Cfs \ (overlapped' \cup moved')
      PROVE  UserOK(c)'
  <2>1. UserOK(c)
    BY <1>6 DEF TwinInv, SingleUsers
  <2>2. m.cf = c => \A g \in Slots : ~Serves(g, c)
    BY <1>5 DEF Starts, Serves
  <2>3. (\A f, g \in Slots : Serves(f, c) /\ Serves(g, c) => f = g)'
    BY <1>3, <1>4, <2>1, <2>2 DEF UserOK, Serves
  <2>4. RowsOf(c)' = RowsOf(c)
    BY DEF RowsOf
  <2>5. (\A g \in Slots : Serves(g, c) /\ work[g].at \in {"fetch", "adduser"} => RowsOf(c) = {})'
    BY <1>3, <1>4, <2>1, <2>4 DEF UserOK, Serves
  <2>6. (\A j, n \in RowsOf(c) : j = n)'
    BY <2>1, <2>4 DEF UserOK
  <2>7. (\A a, b \in Emails : Named(c, a) /\ Named(c, b) => a = b)'
    OBVIOUS
  <2>8. QED
    BY <2>3, <2>5, <2>6, <2>7 DEF UserOK
<1>9. ASSUME NEW code \in {"main", "sub"} \ raced'
      PROVE  OrgOK(code)'
  <2>1. OrgOK(code)
    BY <1>6 DEF TwinInv, SingleOrgs
  <2>2. code \in m.given => \A g \in Slots : code \notin work[g].msg.given
    BY <1>5 DEF Starts
  <2>3. (\A f, g \in Slots : code \in work[f].msg.given /\ code \in work[g].msg.given => f = g)'
    BY <1>3, <1>4, <2>1, <2>2 DEF OrgOK
  <2>4. OrgsOf(code)' = OrgsOf(code)
    BY DEF OrgsOf
  <2>5. \A g \in Slots : work'[g].at = Maker(code) => work[g].at = Maker(code)
    BY <1>3, <1>4 DEF Maker
  <2>6. QED
    BY <2>1, <2>3, <2>4, <2>5 DEF OrgOK
<1>10. QED
  BY <1>7, <1>8, <1>9 DEF TwinInv, SingleUsers, SingleOrgs

LEMMA DeliverTwins ==
    ASSUME Sound, Sound', TwinInv, NEW h \in Slots, Deliver(h)
    PROVE  TwinInv'
<1>1. PICK m : m = Head(queue)
  OBVIOUS
<1>2. queue # <<>> /\ queue \in Seq(Messages) /\ queue' = Tail(queue) /\ UNCHANGED <<user, org, last, moved>>
  BY DEF Deliver, Sound, RestOK, rows
<1>3. m \in Messages /\ 1 \in 1..Len(queue) /\ queue[1] = m
  BY <1>1, <1>2
<1>4. m \in MsgType /\ m.cf \in Cfs
  BY <1>3, MessageFields
<1>5. PICK l : l = IF m.kind = "sync" THEN Begin(m) ELSE m.kind
  OBVIOUS
<1>6. Starts(h, m, l) /\ l \in {"seek", "profile", "remove", "erase", "org", "sub", "user"}
  BY <1>1, <1>3, <1>5, MessageFields DEF Deliver, Begin
<1>7. Len(queue) \in Nat /\ Len(queue') = Len(queue) - 1 /\ \A n \in 1..Len(queue') : queue'[n] = queue[n + 1]
  BY <1>2
<1>8. LastQueued'
  <2>1. ASSUME NEW n \in 1..Len(queue')
        PROVE  \E k \in n..Len(queue') : queue'[k] = last'[queue'[n].cf]
    <3>1. n + 1 \in 1..Len(queue) /\ queue'[n] = queue[n + 1]
      BY <1>7
    <3>2. PICK k \in (n + 1)..Len(queue) : queue[k] = last[queue[n + 1].cf]
      BY <3>1 DEF TwinInv, SingleUsers, LastQueued
    <3>3. k - 1 \in n..Len(queue') /\ (k - 1) + 1 = k /\ k - 1 \in 1..Len(queue')
      BY <1>7, <3>2
    <3>4. queue'[k - 1] = queue[k]
      BY <1>7, <3>3
    <3>5. QED
      BY <1>2, <3>1, <3>2, <3>3, <3>4
  <2>2. QED
    BY <2>1 DEF LastQueued
<1>9. ASSUME NEW c \in Cfs \ (overlapped' \cup moved')
      PROVE  \A a, b \in Emails : Named(c, a)' /\ Named(c, b)' => a = b
  <2>1. UserOK(c)
    BY <1>2, <1>6 DEF TwinInv, SingleUsers, Starts
  <2>2. ASSUME NEW e \in Emails, Named(c, e)'
        PROVE  Named(c, e)
    <3>1. CASE \E n \in 1..Len(queue') : queue'[n].cf = c /\ queue'[n].email = e
      <4>1. PICK n \in 1..Len(queue') : queue'[n].cf = c /\ queue'[n].email = e
        BY <3>1
      <4>2. n + 1 \in 1..Len(queue) /\ queue[n + 1].cf = c /\ queue[n + 1].email = e
        BY <1>7, <4>1
      <4>3. QED
        BY <4>2 DEF Named
    <3>2. CASE \E g \in Slots : Serves(g, c)' /\ work'[g].msg.email = e
      <4>1. PICK g \in Slots : Serves(g, c)' /\ work'[g].msg.email = e
        BY <3>2
      <4>2. CASE g = h
        <5>1. PICK x : x = Start(m, l, Tries)
          OBVIOUS
        <5>2. x.msg = m /\ Goes(h, x)
          BY <1>6, <5>1, IdleFields DEF Starts, Start, WorkType
        <5>3. m.cf = c /\ m.email = e
          BY <4>1, <4>2, <5>2, OneGoes DEF Serves
        <5>4. QED
          BY <1>3, <5>3 DEF Named
      <4>3. CASE g # h
        BY <1>6, <4>1, <4>3, OneGoes DEF Starts, Named, Serves
      <4>4. QED
        BY <4>2, <4>3
    <3>3. CASE \E n \in RowsOf(c)' : user'[n].email = e
      BY <1>2, <3>3 DEF Named, RowsOf
    <3>4. QED
      BY <2>2, <3>1, <3>2, <3>3 DEF Named
  <2>3. QED
    BY <2>1, <2>2 DEF UserOK
<1>10. QED
  BY <1>2, <1>4, <1>6, <1>8, <1>9, StartsTwins

\* A request begins: what it says of the email is the only one, or none.
LEMMA RequestTwins ==
    ASSUME Sound, Sound', TwinInv, NEW h \in Slots, NEW m \in MsgType, m.cf \in Cfs,
           NEW l \in {"seek", "profile"}, Starts(h, m, l), UNCHANGED <<queue, last, user, org>>,
           moved' = IF EmailsOf(m.cf) \subseteq {m.email, "none"} \/ m.email = "none"
                    THEN moved ELSE moved \cup {m.cf}
    PROVE  TwinInv'
<1>1. LastQueued' /\ moved \subseteq moved' /\ overlapped \subseteq overlapped'
  BY DEF TwinInv, SingleUsers, LastQueued, Starts
<1>2. PICK x : x = Start(m, l, Tries)
  OBVIOUS
<1>3. x.msg = m /\ Goes(h, x)
  BY <1>2, IdleFields DEF Starts, Start, WorkType
<1>4. work'[h] = x /\ \A g \in Slots \ {h} : work'[g] = work[g]
  BY <1>3, OneGoes
<1>5. ASSUME NEW c \in Cfs \ (overlapped' \cup moved')
      PROVE  \A a, b \in Emails : Named(c, a)' /\ Named(c, b)' => a = b
  <2>1. UserOK(c)
    BY <1>1 DEF TwinInv, SingleUsers
  <2>2. RowsOf(c)' = RowsOf(c)
    BY DEF RowsOf
  <2>3. \A e \in Emails : Named(c, e)' => Named(c, e) \/ (m.cf = c /\ e = m.email)
    BY <1>3, <1>4, <2>2 DEF Named, Serves
  <2>4. CASE m.cf = c /\ m.email \in Emails
    <3>1. EmailsOf(c) \subseteq {m.email, "none"} /\ m.email # "none" /\ "none" \notin Emails
      BY <2>4, ConstantsAssumption
    <3>2. \A e \in Emails : Named(c, e) => e = m.email
      BY <3>1, EmailsNamed
    <3>3. QED
      BY <2>3, <3>2
  <2>5. CASE ~(m.cf = c /\ m.email \in Emails)
    BY <2>1, <2>3, <2>5 DEF UserOK
  <2>6. QED
    BY <2>4, <2>5
<1>6. QED
  BY <1>1, <1>5, StartsTwins

LEMMA VisitTwins ==
    ASSUME Sound, Sound', TwinInv, NEW h \in Slots, NEW c \in Cfs, Visit(h, c)
    PROVE  TwinInv'
<1>1. PICK m : m = [NoMessage EXCEPT !.kind = "visit", !.cf = c]
  OBVIOUS
<1>2. m \in MsgType /\ m.cf = c /\ m.email = "none"
  BY <1>1, IdleFields DEF NoMessage, MsgType
<1>3. Starts(h, m, "seek") /\ UNCHANGED <<queue, last, user, org, moved>>
  BY <1>1 DEF Visit, rows
<1>4. QED
  BY <1>2, <1>3, RequestTwins

LEMMA EditTwins ==
    ASSUME Sound, Sound', TwinInv, NEW h \in Slots, NEW c \in Cfs, NEW e \in Emails, Edit(h, c, e)
    PROVE  TwinInv'
<1>1. PICK m : m = [NoMessage EXCEPT !.kind = "edit", !.cf = c, !.email = e]
  OBVIOUS
<1>2. m \in MsgType /\ m.cf = c /\ m.email = e /\ e # "none"
  BY <1>1, IdleFields, ConstantsAssumption DEF NoMessage, MsgType
<1>3. Starts(h, m, "profile") /\ UNCHANGED <<queue, last, user, org>>
  BY <1>1 DEF Edit, rows
<1>4. moved' = IF EmailsOf(c) \subseteq {e, "none"} THEN moved ELSE moved \cup {c}
  BY DEF Edit
<1>5. QED
  BY <1>2, <1>3, <1>4, RequestTwins

LEMMA AnnounceTwins ==
    ASSUME Sound, Sound', TwinInv, NEW m \in Messages, Announce(m)
    PROVE  TwinInv'
<1>1. /\ UNCHANGED <<work, user, org, overlapped, raced>>
      /\ queue' = Append(queue, m) /\ last' = [last EXCEPT ![m.cf] = m]
      /\ moved' = IF m.kind = "sync" /\ ~(EmailsOf(m.cf) \subseteq {m.email, "none"})
                  THEN moved \cup {m.cf} ELSE moved
  BY DEF Announce, rows
<1>2. m.cf \in Cfs /\ (m.kind = "sync" \/ m.email = "none") /\ "none" \notin Emails
  BY MessageFields, ConstantsAssumption
<1>3. queue \in Seq(Messages) /\ Len(queue) \in Nat
  BY Lengths DEF Sound, RestOK
<1>4. /\ Len(queue') = Len(queue) + 1 /\ queue'[Len(queue) + 1] = m
      /\ \A n \in 1..Len(queue) : queue'[n] = queue[n]
  BY <1>1, <1>3
<1>5. \A n \in 1..Len(queue) : queue[n].cf \in Cfs
  BY <1>3, MessageFields
<1>6. last'[m.cf] = m /\ \A c \in Cfs : c # m.cf => last'[c] = last[c]
  BY <1>1, <1>2 DEF Sound, RestOK
<1>7. LastQueued'
  <2>1. ASSUME NEW n \in 1..Len(queue')
        PROVE  \E k \in n..Len(queue') : queue'[k] = last'[queue'[n].cf]
    <3>1. CASE queue'[n].cf = m.cf
      <4>1. Len(queue) + 1 \in n..Len(queue')
        BY <1>3, <1>4
      <4>2. QED
        BY <1>4, <1>6, <3>1, <4>1
    <3>2. CASE queue'[n].cf # m.cf
      <4>1. n \in 1..Len(queue) /\ queue'[n] = queue[n]
        BY <1>3, <1>4, <3>2
      <4>2. PICK k \in n..Len(queue) : queue[k] = last[queue[n].cf]
        BY <4>1 DEF TwinInv, SingleUsers, LastQueued
      <4>3. k \in n..Len(queue') /\ queue'[k] = queue[k]
        BY <1>3, <1>4, <4>1, <4>2
      <4>4. QED
        BY <1>5, <1>6, <3>2, <4>1, <4>2, <4>3
    <3>3. QED
      BY <3>1, <3>2
  <2>2. QED
    BY <2>1 DEF LastQueued
<1>8. Strays' /\ moved \subseteq moved'
  BY <1>1 DEF TwinInv, SingleUsers, Strays
<1>9. ASSUME NEW c \in Cfs \ (overlapped \cup moved')
      PROVE  UserOK(c)'
  <2>1. UserOK(c)
    BY <1>8 DEF TwinInv, SingleUsers
  <2>2. RowsOf(c)' = RowsOf(c) /\ \A g \in Slots : Serves(g, c)' = Serves(g, c)
    BY <1>1 DEF RowsOf, Serves
  <2>3. \A e \in Emails : Named(c, e)' => Named(c, e) \/ (m.cf = c /\ e = m.email)
    <3>1. ASSUME NEW e \in Emails, \E n \in 1..Len(queue') : queue'[n].cf = c /\ queue'[n].email = e
          PROVE  Named(c, e) \/ (m.cf = c /\ e = m.email)
      <4>1. PICK n \in 1..Len(queue') : queue'[n].cf = c /\ queue'[n].email = e
        BY <3>1
      <4>2. n \in 1..Len(queue) \/ queue'[n] = m
        BY <1>3, <1>4
      <4>3. QED
        BY <1>4, <4>1, <4>2 DEF Named
    <3>2. QED
      BY <1>1, <2>2, <3>1 DEF Named
  <2>4. \A a, b \in Emails : Named(c, a)' /\ Named(c, b)' => a = b
    <3>1. CASE m.cf = c /\ m.kind = "sync"
      <4>1. EmailsOf(c) \subseteq {m.email, "none"}
        BY <1>1, <3>1
      <4>2. \A e \in Emails : Named(c, e) => e = m.email
        BY <1>2, <4>1, EmailsNamed
      <4>3. QED
        BY <2>3, <4>2
    <3>2. CASE ~(m.cf = c /\ m.kind = "sync")
      <4>1. \A e \in Emails : Named(c, e)' => Named(c, e)
        BY <1>2, <2>3, <3>2
      <4>2. QED
        BY <2>1, <4>1 DEF UserOK
    <3>3. QED
      BY <3>1, <3>2
  <2>5. \A g \in Slots : Serves(g, c)' /\ work'[g].at \in {"fetch", "adduser"}
                         => work[g].at \in {"fetch", "adduser"} \/ RowsOf(c) = {}
    BY <1>1
  <2>6. QED
    BY <2>1, <2>2, <2>4, <2>5, UserStays
<1>10. SingleOrgs'
  <2>1. ASSUME NEW code \in {"main", "sub"} \ raced
        PROVE  OrgOK(code)'
    BY <1>1 DEF TwinInv, SingleOrgs, OrgOK, OrgsOf
  <2>2. QED
    BY <1>1, <2>1 DEF SingleOrgs
<1>11. QED
  BY <1>1, <1>7, <1>8, <1>9, <1>10 DEF TwinInv, SingleUsers

-----------------------------------------------------------------------------
(* Twins: the whole                                                          *)

LEMMA InitTwins ==
    ASSUME Init
    PROVE  TwinInv
<1>1. Sound
  BY InitSound
<1>2. queue = <<>> /\ user = <<>> /\ \A h \in Slots : work[h] = Idle
  BY DEF Init
<1>3. /\ Idle.at = "idle" /\ Idle.msg = NoMessage /\ NoMessage.cf = "none" /\ NoMessage.email = "none"
      /\ NoMessage.given = {} /\ "none" \notin Cfs
  BY <1>1, IdleFields, ConstantsAssumption
<1>4. LastQueued /\ Strays
  BY <1>2, <1>3 DEF LastQueued, Strays
<1>5. ASSUME NEW c \in Cfs
      PROVE  UserOK(c)
  <2>1. \A h \in Slots : ~Serves(h, c)
    BY <1>2, <1>3 DEF Serves
  <2>2. RowsOf(c) = {}
    BY <1>2 DEF RowsOf
  <2>3. \A e : ~Named(c, e)
    BY <1>2, <2>1, <2>2 DEF Named
  <2>4. QED
    BY <2>1, <2>2, <2>3 DEF UserOK
<1>6. ASSUME NEW code \in {"main", "sub"}
      PROVE  OrgOK(code)
  <2>1. \A h \in Slots : work[h].msg.given = {} /\ work[h].at # Maker(code)
    BY <1>2, <1>3 DEF Maker
  <2>2. \A m, n \in OrgsOf(code) : m = n
    <3>1. Len(org) \in {0, 1}
      <4>1. org = <<>> \/ org = <<[code |-> "main", parent |-> 0]>>
        BY DEF Init
      <4>2. QED
        BY <4>1
    <3>2. QED
      BY <3>1 DEF OrgsOf
  <2>3. QED
    BY <2>1, <2>2 DEF OrgOK
<1>7. QED
  BY <1>4, <1>5, <1>6 DEF TwinInv, SingleUsers, SingleOrgs

LEMMA StutterTwins ==
    ASSUME TwinInv, UNCHANGED vars
    PROVE  TwinInv'
<1>1. UNCHANGED <<queue, work, user, org, last, overlapped, raced, moved>>
  BY DEF vars, rows, history
<1>2. QED
  BY <1>1 DEF TwinInv, SingleUsers, SingleOrgs, LastQueued, Strays, UserOK, OrgOK, OrgsOf, Named, Serves, RowsOf

LEMMA NextTwins ==
    ASSUME Sound, Sound', TwinInv, [Next]_vars
    PROVE  TwinInv'
<1>1. ASSUME NEW h \in Slots, HandlerStep(h)
      PROVE  TwinInv'
  BY <1>1, SeekTwins, FetchTwins, ProfileTwins, AddsTwins, InPlaceTwins, OthersTwins, FindOrgTwins,
     OrgsTwins, SurveysTwins, FindRowTwins, SetUserTwins DEF HandlerStep
<1>2. QED
  BY <1>1, AnnounceTwins, DeliverTwins, ErrorsTwins, VisitTwins, EditTwins, StutterTwins DEF Next

\* A user gets a second row, and an organization a second one, only if two handlers were
\* at work for it at once, or, a user, if the email or the id was changed: the reads
\* before the writes are enough otherwise, without a constraint of the database, through
\* retries, stops, and requests that overtake the messages.
THEOREM NoTwinsArise == Spec => []NoTwins
<1>1. Init => Sound /\ TwinInv
  BY InitSound, InitTwins
<1>2. Sound /\ TwinInv /\ [Next]_vars => (Sound /\ TwinInv)'
  BY NextSound, NextTwins
<1>3. Sound /\ TwinInv => NoTwins
  BY TwinInvIsEnough
<1>4. QED
  BY <1>1, <1>2, <1>3, PTL DEF Spec
===============================================================================
