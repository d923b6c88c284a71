-------------------------- MODULE ReferenceAgent --------------------------
(* The reference service desk: reference_agent/app.py with its graph, runtime,  *)
(* storage, faults and privacy modules.                                        *)
(*                                                                            *)
(* Chat requests are handled on threads of one process.  What they share is    *)
(* the database: each store call is one transaction, and between two calls any *)
(* other request may run.  A request claims its session, stores it, reads the  *)
(* session's draft of an access request, asks the model for hints, lets the    *)
(* graph act (at most one ticket or approval), and last saves or deletes the   *)
(* draft.  A text is what the graph finds in it.  The model's hints are         *)
(* arbitrary, since nothing but their shape is checked, and may be absent: a    *)
(* model call fails, and runtime_hints is no key of the graph's state schema,   *)
(* so it is left open whether the graph library hands them to the node.         *)
(* Message, hints and fault are chosen at the step that first looks at them.    *)
EXTENDS Naturals, Sequences

CONSTANTS Workers,     \* threads that handle requests
          Sessions, Users, Software, Assets, Categories,
          Rank,        \* the order in which the software names are looked for
          KnownUsers,  \* the user directory
          AssetOwner,  \* the asset directory, owner of each asset or Nobody
          Restricted,  \* software that only a person may approve
          Messages,    \* what requests may say
          Hints,       \* what the model may make of them
          Nobody,      \* no user
          Nothing      \* no software, no asset, no draft, no hints, no request

ASSUME NothingAssumption == Nothing \notin Software \cup Assets \cup Sessions \cup Hints
ASSUME NobodyAssumption == Nobody \notin Users
ASSUME RankAssumption ==
  /\ Rank \in [Software -> Nat]
  /\ \A x, y \in Software : Rank[x] = Rank[y] => x = y
ASSUME DirectoryAssumption ==
  /\ KnownUsers \subseteq Users
  /\ AssetOwner \in [Assets -> Users \cup {Nobody}]
  /\ Restricted \subseteq Software

Intents == {"access", "ticket", "other"}
\* What may fail a request that has passed its arrival.
Faults == {"none", "model", "user", "asset", "ticket", "approval"}
Message == [intent : Intents, software : Software \cup {Nothing}, justified : BOOLEAN,
            asset : Assets \cup {Nothing}, human : BOOLEAN]
Hint == [intent : Intents, software : Software \cup {Nothing}, justified : BOOLEAN,
         asset : Assets \cup {Nothing}]
ASSUME MessageAssumption ==
  Messages \subseteq Message /\ Hints \subseteq Hint /\ Nothing \notin Message

VARIABLES
  owner,       \* sessions: the user each session is stored for, or Nobody
  draft,       \* access_drafts: what a session's unfinished access request has said
  draftBy,     \* history: the user whose request saved the draft
  tickets,     \* tickets in the order of their identifiers
  approvals,   \* approvals in the order of their identifiers
  request,     \* the request on each thread, or Nothing
  production   \* whether identities come from authentication

database == <<owner, draft, draftBy, tickets, approvals>>
vars == <<database, request, production>>

Draft == [software : Software \cup {Nothing}, justified : BOOLEAN]
Ticket == [session : Sessions, user : Users, asset : Assets, category : Categories]
Approval == [session : Sessions, user : Users, software : Software]

\* "bound" has passed the identity and fault checks, "stored" has written its
\* session, "read" has the effective text, "incomplete" and "settled" have the
\* graph's result and have yet to save or delete the draft.
Request ==
  [at : {"bound", "stored", "read", "incomplete", "settled"}, user : Users,
   session : Sessions, text : Message \cup {Nothing}]

Init ==
  /\ owner = [s \in Sessions |-> Nobody]
  /\ draft = [s \in Sessions |-> Nothing]
  /\ draftBy = [s \in Sessions |-> Nobody]
  /\ tickets = << >> /\ approvals = << >>
  /\ request = [w \in Workers |-> Nothing]
  /\ production \in BOOLEAN

-----------------------------------------------------------------------------
(* What a request says, with what its session's draft has said before.        *)

\* The software named first in the order of the list, not of the text.
FirstNamed(names) ==
  IF names \cap Software = {} THEN Nothing
  ELSE CHOOSE x \in names \cap Software : \A y \in names \cap Software : Rank[x] <= Rank[y]

\* The draft's text goes before the message's and begins with an access keyword.
Effective(m, d) ==
  IF d = Nothing THEN m
  ELSE [m EXCEPT !.intent = "access",
                 !.software = FirstNamed({d.software, m.software}),
                 !.justified = d.justified \/ m.justified]

\* What of a text a draft retains: the reason only as given or not.
Slots(text) == [software |-> text.software, justified |-> text.justified]

\* What the model hints replaces or precedes what the text says.
Intent(text, hint) == IF hint = Nothing THEN text.intent ELSE hint.intent
WantedSoftware(text, hint) ==
  IF hint # Nothing /\ hint.software # Nothing THEN hint.software ELSE text.software
IsJustified(text, hint) == text.justified \/ (hint # Nothing /\ hint.justified)
WantedAsset(text, hint) ==
  IF hint # Nothing /\ hint.asset # Nothing THEN hint.asset ELSE text.asset

-----------------------------------------------------------------------------
(* The steps of a request, each one transaction and the code up to the next.  *)

Busy(w, place) == request[w] # Nothing /\ request[w].at = place
At(w, place, text) == request' = [request EXCEPT ![w].at = place, ![w].text = text]
Done(w) == request' = [request EXCEPT ![w] = Nothing]

\* POST /api/login, for demonstrations only.
Login(u, s) ==
  /\ ~production
  /\ owner[s] = Nobody
  /\ owner' = [owner EXCEPT ![s] = u]
  /\ UNCHANGED <<draft, draftBy, tickets, approvals, request, production>>

\* Mutant: the session is taken over instead of claimed.
TakeOver(u, s) == owner' = [owner EXCEPT ![s] = u]

\* Mutant: the owner found is not compared with the caller.
ClaimUnchecked(u, s) == owner' = IF owner[s] = Nobody THEN [owner EXCEPT ![s] = u] ELSE owner

\* claim_session: insert the session or find it; the caller must be its owner.
Claim(u, s) ==
  /\ owner[s] \in {u, Nobody}
  /\ owner' = [owner EXCEPT ![s] = u]

\* In production the session is claimed before the request's fault is looked at:
\* a request whose fault is refused, or fails the database, leaves it claimed.
Arrive(w, u, s) ==
  /\ request[w] = Nothing
  /\ IF production THEN Claim(u, s) ELSE UNCHANGED owner
  /\ \/ request' = [request EXCEPT ![w] =
          [at |-> "bound", user |-> u, session |-> s, text |-> Nothing]]
     \/ UNCHANGED request
  /\ UNCHANGED <<draft, draftBy, tickets, approvals, production>>

\* upsert_session writes the caller as owner, whoever owned the session.
StoreSession(w) ==
  /\ Busy(w, "bound")
  /\ owner' = [owner EXCEPT ![request[w].session] = request[w].user]
  /\ At(w, "stored", Nothing)
  /\ UNCHANGED <<draft, draftBy, tickets, approvals, production>>

ReadDraft(w) ==
  /\ Busy(w, "stored")
  /\ \E m \in Messages : At(w, "read", Effective(m, draft[request[w].session]))
  /\ UNCHANGED <<database, production>>

\* Under a model fault the graph gets no hints, and it may get none without one.
HintsUnder(fault) == IF fault = "model" THEN {Nothing} ELSE Hints \cup {Nothing}

UserFound(user, fault) == fault # "user" /\ user \in KnownUsers

\* An access request that still lacks its software or its reason.
Lacking(r, hint, fault) ==
  /\ Intent(r.text, hint) = "access" /\ UserFound(r.user, fault)
  /\ WantedSoftware(r.text, hint) = Nothing \/ ~IsJustified(r.text, hint)

\* Mutant: an approval is created before the request is complete.
MayApproveLacking(r, hint, fault) ==
  /\ Intent(r.text, hint) = "access" /\ UserFound(r.user, fault)
  /\ ~r.text.human /\ WantedSoftware(r.text, hint) \notin Restricted
  /\ fault # "approval"

\* A complete one that needs no person.
MayApprove(r, hint, fault) ==
  /\ Intent(r.text, hint) = "access" /\ UserFound(r.user, fault)
  /\ WantedSoftware(r.text, hint) # Nothing /\ IsJustified(r.text, hint)
  /\ ~r.text.human /\ WantedSoftware(r.text, hint) \notin Restricted
  /\ fault # "approval"

\* Mutant: an asset that exists will do, whoever owns it.
MayTicketForOthers(r, hint, fault) ==
  /\ Intent(r.text, hint) = "ticket" /\ UserFound(r.user, fault)
  /\ WantedAsset(r.text, hint) # Nothing
  /\ AssetOwner[WantedAsset(r.text, hint)] # Nobody
  /\ fault \notin {"asset", "ticket"}

\* A fault reported on an asset of the user's own.
MayTicket(r, hint, fault) ==
  /\ Intent(r.text, hint) = "ticket" /\ UserFound(r.user, fault)
  /\ WantedAsset(r.text, hint) # Nothing
  /\ AssetOwner[WantedAsset(r.text, hint)] = r.user
  /\ fault \notin {"asset", "ticket"}

\* Mutant: the key is looked up in the newest row only.
ApprovedLast(a) == approvals # << >> /\ approvals[Len(approvals)] = a

\* Rows already stored under the idempotency key: session, user and software of
\* an approval; session, asset and category, but not the user, of a ticket.
Approved(a) == \E i \in DOMAIN approvals : approvals[i] = a
SameKey(t, u) == t.session = u.session /\ t.asset = u.asset /\ t.category = u.category
Ticketed(t) == \E i \in DOMAIN tickets : SameKey(tickets[i], t)

CreateApproval(w) ==
  /\ Busy(w, "read")
  /\ \E f \in Faults : \E h \in HintsUnder(f) :
       /\ MayApprove(request[w], h, f)
       /\ LET a == [session |-> request[w].session, user |-> request[w].user,
                    software |-> WantedSoftware(request[w].text, h)]
          IN  approvals' = IF Approved(a) THEN approvals ELSE Append(approvals, a)
  /\ At(w, "settled", Nothing)
  /\ UNCHANGED <<owner, draft, draftBy, tickets, production>>

CreateTicket(w) ==
  /\ Busy(w, "read")
  /\ \E f \in Faults, c \in Categories : \E h \in HintsUnder(f) :
       /\ MayTicket(request[w], h, f)
       /\ LET t == [session |-> request[w].session, user |-> request[w].user,
                    asset |-> WantedAsset(request[w].text, h), category |-> c]
          IN  tickets' = IF Ticketed(t) THEN tickets ELSE Append(tickets, t)
  /\ At(w, "settled", Nothing)
  /\ UNCHANGED <<owner, draft, draftBy, approvals, production>>

AskForMore(w) ==
  /\ Busy(w, "read")
  /\ \E f \in Faults : \E h \in HintsUnder(f) : Lacking(request[w], h, f)
  /\ At(w, "incomplete", request[w].text)
  /\ UNCHANGED <<database, production>>

\* Every other answer has no effect: knowledge, a handover to a person, and all
\* that a service, a directory or a fault refuses.
AnswerOnly(w) ==
  /\ Busy(w, "read")
  /\ \E f \in Faults : \E h \in HintsUnder(f) :
       /\ ~MayApprove(request[w], h, f) /\ ~MayTicket(request[w], h, f)
       /\ ~Lacking(request[w], h, f)
  /\ At(w, "settled", Nothing)
  /\ UNCHANGED <<database, production>>

\* upsert_access_draft keeps what has been said, in its reduced form.
SaveDraft(w) ==
  /\ Busy(w, "incomplete")
  /\ draft' = [draft EXCEPT ![request[w].session] = Slots(request[w].text)]
  /\ draftBy' = [draftBy EXCEPT ![request[w].session] = request[w].user]
  /\ Done(w)
  /\ UNCHANGED <<owner, tickets, approvals, production>>

DeleteDraft(w) ==
  /\ Busy(w, "settled")
  /\ draft' = [draft EXCEPT ![request[w].session] = Nothing]
  /\ draftBy' = [draftBy EXCEPT ![request[w].session] = Nobody]
  /\ Done(w)
  /\ UNCHANGED <<owner, tickets, approvals, production>>

\* A store call raises, or the process dies: what was committed stays.
Fail(w) ==
  /\ request[w] # Nothing
  /\ Done(w)
  /\ UNCHANGED <<database, production>>

Step(w) ==
  \/ StoreSession(w) \/ ReadDraft(w) \/ AskForMore(w) \/ CreateApproval(w) \/ CreateTicket(w)
  \/ AnswerOnly(w) \/ SaveDraft(w) \/ DeleteDraft(w) \/ Fail(w)

Next ==
  \/ \E u \in Users, s \in Sessions : Login(u, s)
  \/ \E w \in Workers, u \in Users, s \in Sessions : Arrive(w, u, s)
  \/ \E w \in Workers : Step(w)

Spec == Init /\ [][Next]_vars

-----------------------------------------------------------------------------
\* The types of the tables and of the requests; only a text that is being worked
\* on is kept, and a draft has a user who said it.
TypeOK ==
  /\ owner \in [Sessions -> Users \cup {Nobody}]
  /\ draft \in [Sessions -> Draft \cup {Nothing}]
  /\ draftBy \in [Sessions -> Users \cup {Nobody}]
  /\ tickets \in Seq(Ticket)
  /\ approvals \in Seq(Approval)
  /\ request \in [Workers -> Request \cup {Nothing}]
  /\ production \in BOOLEAN
  /\ \A w \in Workers : request[w] # Nothing =>
       (request[w].text # Nothing <=> request[w].at \in {"read", "incomplete"})
  /\ \A s \in Sessions : draft[s] # Nothing => draftBy[s] # Nobody

\* In production a session never changes hands, although every request writes
\* its user over the owner after the claim (app.py:182, app.py:286).
OwnerStands == [][production => \A s \in Sessions : owner[s] # Nobody => owner'[s] = owner[s]]_vars

\* In production no request builds on what another user has said: the draft its
\* session holds, while it is in flight, was saved for its own user (app.py:183).
DraftPrivate ==
  production => \A w \in Workers :
    request[w] # Nothing /\ draft[request[w].session] # Nothing =>
      draftBy[request[w].session] = request[w].user

\* Whatever the model hints and whoever shares a session, every ticket is for an
\* asset of its user, no approval is for software a person must approve, and in
\* production both belong to the user their session belongs to (graph.py:105-113, 162-180).
EffectsAuthorised ==
  /\ \A i \in DOMAIN approvals :
       /\ approvals[i].user \in KnownUsers
       /\ approvals[i].software \notin Restricted
       /\ production => owner[approvals[i].session] = approvals[i].user
  /\ \A i \in DOMAIN tickets :
       /\ tickets[i].user \in KnownUsers
       /\ AssetOwner[tickets[i].asset] = tickets[i].user
       /\ production => owner[tickets[i].session] = tickets[i].user

\* A request repeated after a failure, or at the same time, has one effect
\* (storage.py:85, storage.py:120).
OneEffectPerKey ==
  /\ \A i, j \in DOMAIN approvals : approvals[i] = approvals[j] => i = j
  /\ \A i, j \in DOMAIN tickets : SameKey(tickets[i], tickets[j]) => i = j
=============================================================================
