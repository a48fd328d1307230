------------------------------- MODULE UserSync -------------------------------
(***************************************************************************)
(* Users and organizations are kept by another application, which announces *)
(* its changes on a queue.  A message is acknowledged as soon as its        *)
(* handler has started; handlers are not awaited and run beside each other, *)
(* and beside the requests of users not seen before, which synchronise the  *)
(* user from an API, and the edits of profiles.                             *)
(* (src/src/message-queueing/message-queueing.service.ts,                   *)
(* users/users-dds.service.ts, core/middleware/update-user-id.middleware.ts) *)
(*                                                                         *)
(* One step is one query.  A query that fails has no effect.  Of a user are *)
(* kept the id at the other application, the email, `active` and the links  *)
(* to organizations; of a survey, how much of it is written.                *)
(***************************************************************************)
EXTENDS Integers, Sequences, FiniteSets

CONSTANTS
    Cfs,            \* ids of users at the other application (cf_userid)
    Emails,
    Givens,         \* what messages give of the organization: subsets of {"main", "sub"}
    Slots,          \* bound: handlers at work at once
    Tries,          \* tries of synchronizeUserDetails() (3)
    Parts,          \* rows of a survey after the first: settings, headings, questions
    Flagged,        \* surveys flagged as default that the database held before
    MaxMessages, MaxRequests, MaxFaults   \* bounds

ASSUME ConstantsAssumption ==
    /\ Givens \subseteq SUBSET {"main", "sub"}
    /\ {Tries, Parts} \subseteq Nat \ {0}
    /\ {Flagged, MaxMessages, MaxRequests, MaxFaults} \subseteq Nat
    /\ "none" \notin Cfs \cup Emails

VARIABLES
    queue,      \* messages announced and not delivered
    work,       \* work[h]: a handler or a request
    user,       \* rows of users_dds, in the order of their ids; erased ones are "gone"
    org,        \* rows of organization
    survey,     \* rows of assessments
    last,       \* last[c]: what was announced last of c
    messages, requests, faults,     \* what the bounds count
    \* history, read by no action:
    overlapped, \* users whom two handlers worked for at once
    raced,      \* organizations which two handlers worked for at once
    lost,       \* users whose handler ended without success
    moved,      \* users whose email or id was changed
    cut         \* users whose sub-organization could not be read or written

bounds  == <<messages, requests, faults>>
history == <<overlapped, raced, lost, moved, cut>>
rows    == <<user, org, survey>>
vars    == <<queue, work, rows, last, bounds, history>>

NoMessage == [kind |-> "none", cf |-> "none", email |-> "none", given |-> {}]
Idle == [at |-> "idle", msg |-> NoMessage, try |-> 0, main |-> 0, sub |-> 0, row |-> 0, twins |-> {}]

\* Surveys are flagged by hand: no code does it.
Init ==
    /\ queue = <<>>
    /\ work = [h \in Slots |-> Idle]
    /\ user = <<>>
    /\ \E n \in {0, Flagged} :
          /\ org = IF n = 0 THEN <<>> ELSE <<[code |-> "main", parent |-> 0]>>
          /\ survey = [k \in 1..n |-> [org |-> 1, flagged |-> TRUE, deleted |-> FALSE, parts |-> Parts]]
    /\ last = [c \in Cfs |-> NoMessage]
    /\ messages = 0 /\ requests = 0 /\ faults = 0
    /\ overlapped = {} /\ raced = {} /\ lost = {} /\ moved = {} /\ cut = {}

Busy(h)    == work[h].at # "idle"
Goes(h, x) == work' = [work EXCEPT ![h] = x]
At(h, label) == Goes(h, [work[h] EXCEPT !.at = label])

First(S) == IF S = {} THEN 0 ELSE CHOOSE n \in S : \A k \in S : n <= k
OrgOf(code)  == First({n \in 1..Len(org) : org[n].code = code})
RowsOf(c)    == {n \in 1..Len(user) : user[n].cf = c}
\* Mutated: a deleted user is not found.
FindActiveUser(m) == First({n \in RowsOf(m.cf) : user[n].email = m.email /\ user[n].active})
FindUser(m)  == First({n \in RowsOf(m.cf) : user[n].email = m.email})
Defaults(o)  == {k \in 1..Len(survey) : survey[k].org = o /\ survey[k].flagged /\ ~survey[k].deleted}

-----------------------------------------------------------------------------
(* Messages and requests.                                                  *)

\* Where synchronizeUserDetails() begins.
Begin(m) == IF "main" \in m.given THEN "org" ELSE IF "sub" \in m.given THEN "sub" ELSE "user"

\* The emails under which c is known or soon will be.
EmailsOf(c) ==
    {queue[n].email : n \in {k \in 1..Len(queue) : queue[k].cf = c}}
        \cup {work[h].msg.email : h \in {g \in Slots : work[g].msg.cf = c}}
        \cup {user[n].email : n \in RowsOf(c)}

\* The other application announces a change.
Announce(m) ==
    /\ messages < MaxMessages /\ messages' = messages + 1
    /\ queue' = Append(queue, m)
    /\ last' = [last EXCEPT ![m.cf] = m]
    /\ moved' = IF m.kind = "sync" /\ ~(EmailsOf(m.cf) \subseteq {m.email, "none"})
                THEN moved \cup {m.cf} ELSE moved
    /\ UNCHANGED <<work, rows, requests, faults, overlapped, raced, lost, cut>>

\* Work begins on m: who else is at it?
Starts(h, m, label) ==
    /\ ~Busy(h)
    /\ Goes(h, [Idle EXCEPT !.at = label, !.msg = m, !.try = Tries])
    /\ overlapped' = IF \E g \in Slots : Busy(g) /\ work[g].msg.cf = m.cf
                     THEN overlapped \cup {m.cf} ELSE overlapped
    /\ raced' = raced \cup UNION {work[g].msg.given \cap m.given : g \in {k \in Slots : Busy(k)}}

\* A message is handed to its handler, which is not awaited, and acknowledged.
Deliver(h) ==
    LET m == Head(queue) IN
    /\ queue # <<>>
    /\ Starts(h, m, IF m.kind = "sync" THEN Begin(m) ELSE m.kind)
    /\ queue' = Tail(queue)
    /\ UNCHANGED <<rows, last, bounds, lost, moved, cut>>

\* A request of user c passes the middleware.
Visit(h, c) ==
    /\ requests < MaxRequests /\ requests' = requests + 1
    /\ Starts(h, [NoMessage EXCEPT !.kind = "visit", !.cf = c], "seek")
    /\ UNCHANGED <<queue, rows, last, messages, faults, lost, moved, cut>>

\* A profile is edited: the user's own, or one without a row.
Edit(h, c, email) ==
    /\ requests < MaxRequests /\ requests' = requests + 1
    /\ Starts(h, [NoMessage EXCEPT !.kind = "edit", !.cf = c, !.email = email], "profile")
    /\ moved' = IF EmailsOf(c) \subseteq {email, "none"} THEN moved ELSE moved \cup {c}
    /\ UNCHANGED <<queue, rows, last, messages, faults, lost, cut>>

Done(h) == Goes(h, Idle)

\* A user who has a row is let through; for another one the API is called.
Seek(h) ==
    /\ work[h].at = "seek"
    /\ IF RowsOf(work[h].msg.cf) = {} THEN At(h, "fetch") ELSE Done(h)
    /\ UNCHANGED <<queue, rows, last, bounds, history>>

\* It knows the organization of the user, not the sub-organization.
Fetch(h) ==
    LET m == last[work[h].msg.cf]
        n == [m EXCEPT !.kind = "visit", !.given = {"main"}] IN
    /\ work[h].at = "fetch"
    /\ IF m.kind = "sync" /\ "main" \in m.given
       THEN /\ Goes(h, [work[h] EXCEPT !.at = Begin(n), !.msg = n])
            /\ raced' = raced \cup UNION {work[g].msg.given \cap n.given : g \in Slots \ {h}}
       ELSE Done(h) /\ UNCHANGED raced
    /\ UNCHANGED <<queue, rows, last, bounds, overlapped, lost, moved, cut>>

\* update(): the rows of an id are changed; without one a row is created, under the
\* id of the user who asks.
Profile(h, caller) ==
    LET m == work[h].msg IN
    /\ work[h].at = "profile"
    /\ IF RowsOf(m.cf) = {}
       THEN /\ Goes(h, [work[h] EXCEPT !.at = "newprofile", !.msg.cf = caller])
            /\ moved' = moved \cup {caller}
       ELSE At(h, "setprofile") /\ UNCHANGED moved
    /\ UNCHANGED <<queue, rows, last, bounds, overlapped, raced, lost, cut>>

NewUser(m, main, sub) == [cf |-> m.cf, email |-> m.email, active |-> TRUE, main |-> main, sub |-> sub]

NewProfile(h) ==
    /\ work[h].at = "newprofile"
    /\ user' = Append(user, NewUser(work[h].msg, 0, 0))
    /\ Done(h)
    /\ UNCHANGED <<queue, org, survey, last, bounds, history>>

SetProfile(h) ==
    /\ work[h].at = "setprofile"
    /\ user' = [n \in 1..Len(user) |-> IF n \in RowsOf(work[h].msg.cf)
                                       THEN [user[n] EXCEPT !.email = work[h].msg.email] ELSE user[n]]
    /\ Done(h)
    /\ UNCHANGED <<queue, org, survey, last, bounds, history>>

-----------------------------------------------------------------------------
(* Deletion.                                                               *)

\* deleteUserFromDDS(), hardDeleteUserFromDDS(): the user is looked for,
FindDeleted(h) ==
    /\ work[h].at \in {"remove", "erase"}
    /\ IF RowsOf(work[h].msg.cf) = {} THEN Done(h)
       ELSE At(h, IF work[h].at = "remove" THEN "deactivate" ELSE "destroy")
    /\ UNCHANGED <<queue, rows, last, bounds, history>>

\* and all rows of the id become inactive,
Deactivate(h) ==
    /\ work[h].at = "deactivate"
    /\ user' = [n \in 1..Len(user) |-> IF n \in RowsOf(work[h].msg.cf)
                                       THEN [user[n] EXCEPT !.active = FALSE] ELSE user[n]]
    /\ Done(h)
    /\ UNCHANGED <<queue, org, survey, last, bounds, history>>

\* or are removed.
Destroy(h) ==
    /\ work[h].at = "destroy"
    /\ user' = [n \in 1..Len(user) |-> IF n \in RowsOf(work[h].msg.cf)
                                       THEN [user[n] EXCEPT !.cf = "none"] ELSE user[n]]
    /\ Done(h)
    /\ UNCHANGED <<queue, org, survey, last, bounds, history>>

-----------------------------------------------------------------------------
(* synchronizeUserDetails().                                               *)

FindOrg(h) ==
    /\ work[h].at = "org"
    /\ Goes(h, [work[h] EXCEPT !.main = OrgOf("main"),
                               !.at = IF OrgOf("main") = 0 THEN "neworg" ELSE "defaults"])
    /\ UNCHANGED <<queue, rows, last, bounds, history>>

CreateOrg(h) ==
    /\ work[h].at = "neworg"
    /\ org' = Append(org, [code |-> "main", parent |-> 0])
    /\ Goes(h, [work[h] EXCEPT !.main = Len(org) + 1, !.at = "defaults"])
    /\ UNCHANGED <<queue, user, survey, last, bounds, history>>

AfterOrg(h) == IF "sub" \in work[h].msg.given THEN "sub" ELSE "user"

\* The surveys flagged as default: one too many is deleted, one missing created.
FindDefaults(h) ==
    LET S == Defaults(work[h].main) IN
    /\ work[h].at = "defaults"
    /\ Goes(h, [work[h] EXCEPT !.twins = S \ {First(S)},
                               !.at = IF S = {} THEN "survey"
                                      ELSE IF Cardinality(S) > 1 THEN "dedupe" ELSE AfterOrg(h)])
    /\ UNCHANGED <<queue, rows, last, bounds, history>>

Dedupe(h) ==
    /\ work[h].at = "dedupe"
    /\ survey' = [k \in 1..Len(survey) |-> IF k \in work[h].twins
                                           THEN [survey[k] EXCEPT !.deleted = TRUE] ELSE survey[k]]
    /\ Goes(h, [work[h] EXCEPT !.at = AfterOrg(h), !.twins = {}])
    /\ UNCHANGED <<queue, user, org, last, bounds, history>>

\* Mutated: the flag is stored before the survey is complete.
CreateSurveyFlagged(h) ==
    /\ work[h].at = "survey"
    /\ survey' = Append(survey, [org |-> work[h].main, flagged |-> TRUE, deleted |-> FALSE, parts |-> 0])
    /\ Goes(h, [work[h] EXCEPT !.at = "parts", !.row = Len(survey) + 1])
    /\ UNCHANGED <<queue, user, org, last, bounds, history>>

\* createDefaultDimitraAssessment(): the row says is_default, which is the name of the
\* column and not of the attribute: create() leaves the flag out.
CreateSurvey(h) ==
    /\ work[h].at = "survey"
    /\ survey' = Append(survey, [org |-> work[h].main, flagged |-> FALSE, deleted |-> FALSE, parts |-> 0])
    /\ Goes(h, [work[h] EXCEPT !.at = "parts", !.row = Len(survey) + 1])
    /\ UNCHANGED <<queue, user, org, last, bounds, history>>

\* Mutated: one row too many.
CreatePartOnceMore(h) ==
    LET k == work[h].row IN
    /\ work[h].at = "parts"
    /\ survey' = [survey EXCEPT ![k].parts = @ + 1]
    /\ Goes(h, IF survey[k].parts < Parts THEN work[h]
               ELSE [work[h] EXCEPT !.at = AfterOrg(h), !.row = 0])
    /\ UNCHANGED <<queue, user, org, last, bounds, history>>

\* Its settings, headings, questions and options, one by one, outside of a transaction.
CreatePart(h) ==
    LET k == work[h].row IN
    /\ work[h].at = "parts"
    /\ survey' = [survey EXCEPT ![k].parts = @ + 1]
    /\ Goes(h, IF survey[k].parts + 1 < Parts THEN work[h]
               ELSE [work[h] EXCEPT !.at = AfterOrg(h), !.row = 0])
    /\ UNCHANGED <<queue, user, org, last, bounds, history>>

FindSub(h) ==
    /\ work[h].at = "sub"
    /\ Goes(h, [work[h] EXCEPT !.sub = OrgOf("sub"), !.at = IF OrgOf("sub") = 0 THEN "newsub" ELSE "user"])
    /\ UNCHANGED <<queue, rows, last, bounds, history>>

CreateSub(h) ==
    /\ work[h].at = "newsub"
    /\ org' = Append(org, [code |-> "sub", parent |-> work[h].main])
    /\ Goes(h, [work[h] EXCEPT !.sub = Len(org) + 1, !.at = "user"])
    /\ UNCHANGED <<queue, user, survey, last, bounds, history>>

\* The user with both the email and the id.
FindRow(h) ==
    LET n == FindUser(work[h].msg) IN
    /\ work[h].at = "user"
    /\ Goes(h, [work[h] EXCEPT !.row = n, !.at = IF n = 0 THEN "adduser" ELSE "setuser"])
    /\ UNCHANGED <<queue, rows, last, bounds, history>>

AddUser(h) ==
    /\ work[h].at = "adduser"
    /\ user' = Append(user, NewUser(work[h].msg, work[h].main, work[h].sub))
    /\ Done(h)
    /\ UNCHANGED <<queue, org, survey, last, bounds, history>>

\* Mutated: `active` is not among the columns updated.
SetUserKeepingActive(h) ==
    LET n == work[h].row IN
    /\ work[h].at = "setuser"
    /\ user' = IF user[n].cf = "none" THEN user
               ELSE [user EXCEPT ![n] = [@ EXCEPT !.email = work[h].msg.email, !.main = work[h].main, !.sub = work[h].sub]]
    /\ At(h, "reread")
    /\ UNCHANGED <<queue, org, survey, last, bounds, history>>

\* By primary key: an erased row is not there any more.
SetUser(h) ==
    LET n == work[h].row IN
    /\ work[h].at = "setuser"
    /\ user' = IF user[n].cf = "none" THEN user
               ELSE [user EXCEPT ![n] = NewUser(work[h].msg, work[h].main, work[h].sub)]
    /\ At(h, "reread")
    /\ UNCHANGED <<queue, org, survey, last, bounds, history>>

\* The row is read for the answer.
Reread(h) ==
    /\ work[h].at = "reread"
    /\ Done(h)
    /\ UNCHANGED <<queue, rows, last, bounds, history>>

-----------------------------------------------------------------------------
(* Errors.                                                                 *)

Faulty == faults < MaxFaults /\ faults' = faults + 1
Syncing(h) == work[h].msg.kind \in {"sync", "visit"} /\ work[h].at \notin {"seek", "fetch"}

\* The process stops: what it was at is lost, and started again by nobody.
Exit ==
    /\ work' = [h \in Slots |-> Idle]
    /\ lost' = lost \cup {work[h].msg.cf : h \in {g \in Slots : Busy(g)}}

\* A query fails.  That of a sub-organization is reported; synchronisation is tried
\* again from its beginning; after the last try, and in a deletion, the error
\* reaches nobody, if it was a message's, and ends the process.
QueryFails(h) ==
    LET m == work[h].msg IN
    /\ Busy(h) /\ Faulty
    /\ \/ /\ work[h].at \in {"sub", "newsub"}
          /\ At(h, "user")
          /\ cut' = cut \cup {m.cf}
          /\ UNCHANGED lost
       \/ /\ work[h].at \notin {"sub", "newsub"} /\ Syncing(h) /\ work[h].try > 1
          /\ Goes(h, [Idle EXCEPT !.at = Begin(m), !.msg = m, !.try = work[h].try - 1])
          /\ UNCHANGED <<lost, cut>>
       \/ /\ work[h].at \notin {"sub", "newsub"}
          /\ Syncing(h) => work[h].try = 1
          /\ IF m.kind \in {"visit", "edit"} THEN /\ Done(h)
                                               /\ lost' = lost \cup {m.cf} ELSE Exit
          /\ UNCHANGED cut
    /\ UNCHANGED <<queue, rows, last, messages, requests, overlapped, raced, moved>>

Crash ==
    /\ Faulty /\ \E h \in Slots : Busy(h)
    /\ Exit
    /\ UNCHANGED <<queue, rows, last, messages, requests, overlapped, raced, moved, cut>>

-----------------------------------------------------------------------------
Messages ==
    [kind : {"sync"}, cf : Cfs, email : Emails, given : Givens]
        \cup [kind : {"remove", "erase"}, cf : Cfs, email : {"none"}, given : {{}}]

HandlerStep(h) ==
    \/ Seek(h) \/ Fetch(h) \/ \E c \in Cfs : Profile(h, c)
    \/ NewProfile(h) \/ SetProfile(h)
    \/ FindDeleted(h) \/ Deactivate(h) \/ Destroy(h)
    \/ FindOrg(h) \/ CreateOrg(h) \/ FindDefaults(h) \/ Dedupe(h) \/ CreateSurvey(h) \/ CreatePart(h)
    \/ FindSub(h) \/ CreateSub(h) \/ FindRow(h) \/ AddUser(h) \/ SetUser(h) \/ Reread(h)

Next ==
    \/ \E m \in Messages : Announce(m)
    \/ \E h \in Slots : Deliver(h) \/ HandlerStep(h) \/ QueryFails(h)
    \/ \E h \in Slots, c \in Cfs : Visit(h, c)
    \/ \E h \in Slots, c \in Cfs, e \in Emails : Edit(h, c, e)
    \/ Crash

Spec == Init /\ [][Next]_vars

\* The consumer is called with the messages of its queue; queries are answered.
FairSpec ==
    /\ Spec
    /\ WF_vars(\E h \in Slots : Deliver(h))
    /\ \A h \in Slots : WF_vars(HandlerStep(h))

-----------------------------------------------------------------------------
Steps == {"idle", "seek", "fetch", "profile", "newprofile", "setprofile", "remove", "erase",
          "deactivate", "destroy", "org", "neworg", "defaults", "dedupe", "survey", "parts",
          "sub", "newsub", "user", "adduser", "setuser", "reread"}

\* The types of the state.
TypeOK ==
    /\ queue \in Seq(Messages)
    /\ \A h \in Slots :
          /\ work[h].at \in Steps /\ work[h].try \in 0..Tries
          /\ {work[h].main, work[h].sub} \subseteq 0..Len(org)
          /\ work[h].row \in 0..(Len(user) + Len(survey)) /\ work[h].twins \subseteq 1..Len(survey)
    /\ user \in Seq([cf : Cfs \cup {"none"}, email : Emails, active : BOOLEAN,
                     main : 0..Len(org), sub : 0..Len(org)])
    /\ org \in Seq([code : {"main", "sub"}, parent : 0..Len(org)])
    /\ survey \in Seq([org : 1..Len(org), flagged : BOOLEAN, deleted : BOOLEAN, parts : 0..Parts])
    /\ last \in [Cfs -> Messages \cup {NoMessage}]
    /\ bounds \in Nat \X Nat \X Nat
    /\ overlapped \cup lost \cup moved \cup cut \subseteq Cfs /\ raced \subseteq {"main", "sub"}

Live(o)     == {k \in 1..Len(survey) : survey[k].org = o /\ ~survey[k].deleted}
Complete(k) == survey[k].parts = Parts

\* Whoever belongs to an organization finds a complete survey there, whatever failed
\* while it was written and whoever else wrote one; and an organization keeps one
\* of the surveys that were flagged as its default.
SurveyKept ==
    /\ \A n \in 1..Len(user) : user[n].main # 0 => \E k \in Live(user[n].main) : Complete(k)
    /\ (\E k \in 1..Len(survey) : survey[k].flagged) => \E o \in 1..Len(org) : Defaults(o) # {}

\* A user has two rows, and an organization, only if two handlers were at work for
\* it at once, or, a user, if the email was changed, by which rows are looked up.
NoTwins ==
    /\ \A c \in Cfs \ (overlapped \cup moved) : Cardinality(RowsOf(c)) <= 1
    /\ \A code \in {"main", "sub"} \ raced : Cardinality({n \in 1..Len(org) : org[n].code = code}) <= 1

\* The rows of c say what was announced last.
Agrees(c) ==
    LET m == last[c] IN
    CASE m.kind = "none"   -> RowsOf(c) = {}
      [] m.kind = "remove" -> \A n \in RowsOf(c) : ~user[n].active
      [] m.kind = "erase"  -> RowsOf(c) = {}
      [] m.kind = "sync"   -> \E n \in RowsOf(c) :
            /\ RowsOf(c) = {n}
            /\ user[n].email = m.email /\ user[n].active
            /\ IF "main" \in m.given THEN user[n].main # 0 /\ org[user[n].main].code = "main"
                                     ELSE user[n].main = 0
            /\ c \notin cut => IF "sub" \in m.given THEN user[n].sub # 0 /\ org[user[n].sub].code = "sub"
                                                    ELSE user[n].sub = 0

\* What was announced last of a user is what the rows say in the end, through failed
\* queries, retries and stops, unless two handlers worked for the user at once, one
\* ended without success, or the email or id was changed.
Converges == \A c \in Cfs : <>[](Agrees(c) \/ c \in overlapped \cup lost \cup moved)

\* "If duplicates are found, keep the first one and remove the others": when nobody is
\* at work, an organization has one default survey at most.
OneDefault ==
    (\A h \in Slots : ~Busy(h)) => \A o \in 1..Len(org) : Cardinality(Live(o)) <= 1
=============================================================================
