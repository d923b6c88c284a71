----------------------- MODULE ReferenceAgentProofs -----------------------
(* The service desk's guarantees, for any users, sessions, threads, texts and  *)
(* model hints.  What makes them inductive is that in production a request in   *)
(* flight works on a session of its own user (ClaimHolds): the claim at its      *)
(* arrival outlives every later write of the owner, and with it the drafts and   *)
(* the effects stay with the user who owns the session.  And the records of a   *)
(* pytest session, for any tests, bounds and order of phases, calls and tasks.  *)
EXTENDS ReferenceAgent, TestSession, FiniteSetTheorems, SequenceTheorems, TLAPS

\* In production a request in flight works on a session of its own user.
ClaimHolds ==
  production => \A w \in Workers :
    request[w] # Nothing => owner[request[w].session] = request[w].user

\* In production a draft was said by the owner of its session.
DraftOwned ==
  production => \A s \in Sessions : draft[s] # Nothing => draftBy[s] = owner[s]

IInv == TypeOK /\ ClaimHolds /\ DraftOwned /\ EffectsAuthorised /\ OneEffectPerKey

USE NothingAssumption, NobodyAssumption, RankAssumption, DirectoryAssumption, MessageAssumption

LEMMA InitInv == Init => IInv
  <1> SUFFICES ASSUME Init PROVE IInv
    OBVIOUS
  <1> USE DEF Init
  <1>1. TypeOK
    BY DEF TypeOK
  <1>2. ClaimHolds /\ DraftOwned
    BY DEF ClaimHolds, DraftOwned
  <1>3. EffectsAuthorised /\ OneEffectPerKey
    BY DEF EffectsAuthorised, OneEffectPerKey
  <1> QED
    BY <1>1, <1>2, <1>3 DEF IInv

-----------------------------------------------------------------------------
(* What the operators return.                                                 *)

\* One of two names, if either is a software, is found first.
LEMMA FirstNamedType ==
  ASSUME NEW a \in Software \cup {Nothing}, NEW b \in Software \cup {Nothing}
  PROVE  FirstNamed({a, b}) \in Software \cup {Nothing}
  <1> DEFINE named == {a, b} \cap Software
  <1>1. CASE named = {}
    BY <1>1 DEF FirstNamed
  <1>2. CASE named # {}
    <2>1. \E x \in named : \A y \in named : Rank[x] <= Rank[y]
      <3>1. CASE a \in Software /\ b \in Software
        <4>1. Rank[a] \in Nat /\ Rank[b] \in Nat
          BY <3>1
        <4>2. Rank[a] <= Rank[b] \/ Rank[b] <= Rank[a]
          BY <4>1
        <4>3. Rank[a] <= Rank[a] /\ Rank[b] <= Rank[b]
          BY <4>1
        <4> QED
          BY <3>1, <4>2, <4>3
      <3>2. CASE a \in Software /\ b \notin Software
        <4>1. Rank[a] \in Nat
          BY <3>2
        <4>2. \A y \in named : y = a
          BY <3>2
        <4> QED
          BY <3>2, <4>1, <4>2
      <3>3. CASE a \notin Software
        <4>1. b \in Software /\ \A y \in named : y = b
          BY <3>3, <1>2
        <4>2. Rank[b] \in Nat
          BY <4>1
        <4> QED
          BY <4>1, <4>2
      <3> QED
        BY <3>1, <3>2, <3>3
    <2> QED
      BY <2>1, <1>2 DEF FirstNamed
  <1> QED
    BY <1>1, <1>2

\* A message read with a draft is still a message.
LEMMA EffectiveType ==
  ASSUME NEW m \in Messages, NEW d \in Draft \cup {Nothing}
  PROVE  Effective(m, d) \in Message
  <1>1. m \in Message
    OBVIOUS
  <1>2. CASE d = Nothing
    BY <1>1, <1>2 DEF Effective
  <1>3. CASE d # Nothing
    <2>1. d.software \in Software \cup {Nothing} /\ m.software \in Software \cup {Nothing}
      BY <1>1, <1>3 DEF Draft, Message
    <2>2. FirstNamed({d.software, m.software}) \in Software \cup {Nothing}
      BY <2>1, FirstNamedType
    <2>3. d.justified \in BOOLEAN /\ m.justified \in BOOLEAN
      BY <1>1, <1>3 DEF Draft, Message
    <2>4. (d.justified \/ m.justified) \in BOOLEAN
      OBVIOUS
    <2> QED
      BY <1>1, <1>3, <2>2, <2>4 DEF Effective, Message, Intents
  <1> QED
    BY <1>2, <1>3

\* Hints are well formed, or absent.
LEMMA HintType ==
  ASSUME NEW f \in Faults, NEW h \in HintsUnder(f)
  PROVE  h = Nothing \/ (h \in Hint /\ h # Nothing)
  BY DEF HintsUnder

\* What an approval is created for is a software, and one that no person has to
\* approve, and its user is known.
LEMMA ApprovalMade ==
  ASSUME TypeOK, NEW w \in Workers, Busy(w, "read"),
         NEW f \in Faults, NEW h \in HintsUnder(f), MayApprove(request[w], h, f)
  PROVE  /\ WantedSoftware(request[w].text, h) \in Software \ Restricted
         /\ request[w].user \in KnownUsers /\ request[w].session \in Sessions
  <1>1. request[w] \in Request /\ request[w].text # Nothing
    BY DEF TypeOK, Busy
  <1>2. request[w].text \in Message
    BY <1>1 DEF Request
  <1>3. request[w].text.software \in Software \cup {Nothing}
    BY <1>2 DEF Message
  <1>4. h # Nothing => h.software \in Software \cup {Nothing}
    BY HintType DEF Hint
  <1>5. WantedSoftware(request[w].text, h) \in Software \cup {Nothing}
    BY <1>3, <1>4 DEF WantedSoftware
  <1> QED
    BY <1>1, <1>5 DEF MayApprove, UserFound, Request

\* What a ticket is created for is an asset of its user, and its user is known.
LEMMA TicketMade ==
  ASSUME TypeOK, NEW w \in Workers, Busy(w, "read"),
         NEW f \in Faults, NEW h \in HintsUnder(f), MayTicket(request[w], h, f)
  PROVE  /\ WantedAsset(request[w].text, h) \in Assets
         /\ AssetOwner[WantedAsset(request[w].text, h)] = request[w].user
         /\ request[w].user \in KnownUsers /\ request[w].session \in Sessions
  <1>1. request[w] \in Request /\ request[w].text # Nothing
    BY DEF TypeOK, Busy
  <1>2. request[w].text \in Message
    BY <1>1 DEF Request
  <1>3. request[w].text.asset \in Assets \cup {Nothing}
    BY <1>2 DEF Message
  <1>4. h # Nothing => h.asset \in Assets \cup {Nothing}
    BY HintType DEF Hint
  <1>5. WantedAsset(request[w].text, h) \in Assets \cup {Nothing}
    BY <1>3, <1>4 DEF WantedAsset
  <1> QED
    BY <1>1, <1>5 DEF MayTicket, UserFound, Request

-----------------------------------------------------------------------------
(* The owner of a session.                                                    *)

\* In production no step changes the owner a session has.
LEMMA OwnerKept ==
  ASSUME IInv, [Next]_vars, production, NEW s \in Sessions, owner[s] # Nobody
  PROVE  owner'[s] = owner[s]
  <1> USE DEF IInv
  <1>1. ASSUME NEW u \in Users, NEW t \in Sessions, Login(u, t)
        PROVE  owner'[s] = owner[s]
    BY <1>1 DEF Login
  <1>2. ASSUME NEW w \in Workers, NEW u \in Users, NEW t \in Sessions, Arrive(w, u, t)
        PROVE  owner'[s] = owner[s]
    BY <1>2 DEF Arrive, Claim, TypeOK
  <1>3. ASSUME NEW w \in Workers, StoreSession(w)
        PROVE  owner'[s] = owner[s]
    <2>1. request[w] # Nothing /\ owner' = [owner EXCEPT ![request[w].session] = request[w].user]
      BY <1>3 DEF StoreSession, Busy
    <2>2. owner[request[w].session] = request[w].user
      BY <2>1 DEF ClaimHolds
    <2> QED
      BY <2>1, <2>2 DEF TypeOK
  <1>4. ASSUME UNCHANGED owner
        PROVE  owner'[s] = owner[s]
    BY <1>4
  <1>5. ASSUME NEW w \in Workers, Step(w), ~StoreSession(w)
        PROVE  UNCHANGED owner
    BY <1>5 DEF Step, ReadDraft, AskForMore, CreateApproval, CreateTicket, AnswerOnly,
                SaveDraft, DeleteDraft, Fail, database
  <1>6. CASE UNCHANGED vars
    BY <1>4, <1>6 DEF vars, database
  <1> QED
    BY <1>1, <1>2, <1>3, <1>4, <1>5, <1>6 DEF Next

LEMMA ModeFixed == [Next]_vars => production' = production
  BY DEF Next, Login, Arrive, Step, StoreSession, ReadDraft, AskForMore, CreateApproval,
         CreateTicket, AnswerOnly, SaveDraft, DeleteDraft, Fail, vars

\* A request in flight after a step was in flight before it, for the same user
\* and session, or has arrived in it.
LEMMA StillInFlight ==
  ASSUME TypeOK, Next, NEW w \in Workers, request'[w] # Nothing
  PROVE  \/ /\ request[w] # Nothing
            /\ request'[w].user = request[w].user /\ request'[w].session = request[w].session
         \/ \E u \in Users, s \in Sessions :
              Arrive(w, u, s) /\ request'[w].user = u /\ request'[w].session = s
  <1>1. request \in [Workers -> Request \cup {Nothing}]
    BY DEF TypeOK
  <1>2. ASSUME NEW u \in Users, NEW s \in Sessions, Login(u, s)
        PROVE  request'[w] = request[w]
    BY <1>2 DEF Login
  <1>3. ASSUME NEW v \in Workers, NEW u \in Users, NEW s \in Sessions, Arrive(v, u, s), v # w
        PROVE  request'[w] = request[w]
    BY <1>1, <1>3 DEF Arrive
  <1>4. ASSUME NEW u \in Users, NEW s \in Sessions, Arrive(w, u, s)
        PROVE  request'[w].user = u /\ request'[w].session = s
    BY <1>1, <1>4 DEF Arrive
  <1>5. ASSUME NEW v \in Workers, Step(v)
        PROVE  /\ request[w] # Nothing
               /\ request'[w].user = request[w].user /\ request'[w].session = request[w].session
    <2>1. ASSUME NEW place, NEW text, request[v] # Nothing, At(v, place, text)
          PROVE  /\ request[w] # Nothing
                 /\ request'[w].user = request[w].user /\ request'[w].session = request[w].session
      <3>1. request[v] \in Request
        BY <1>1, <2>1
      <3>2. request'[w] = IF w = v THEN [request[v] EXCEPT !.at = place, !.text = text]
                          ELSE request[w]
        BY <1>1, <2>1 DEF At
      <3> QED
        BY <3>1, <3>2, <2>1 DEF Request
    <2>2. CASE Done(v)
      BY <1>1, <2>2 DEF Done
    <2>3. StoreSession(v) => \E place, text : request[v] # Nothing /\ At(v, place, text)
      BY DEF StoreSession, Busy
    <2>4. ReadDraft(v) => \E place, text : request[v] # Nothing /\ At(v, place, text)
      BY DEF ReadDraft, Busy
    <2>5. AskForMore(v) => \E place, text : request[v] # Nothing /\ At(v, place, text)
      BY DEF AskForMore, Busy
    <2>6. CreateApproval(v) \/ CreateTicket(v) \/ AnswerOnly(v)
            => \E place, text : request[v] # Nothing /\ At(v, place, text)
      BY DEF CreateApproval, CreateTicket, AnswerOnly, Busy
    <2>7. SaveDraft(v) \/ DeleteDraft(v) \/ Fail(v) => Done(v)
      BY DEF SaveDraft, DeleteDraft, Fail
    <2> QED
      BY <1>5, <2>1, <2>2, <2>3, <2>4, <2>5, <2>6, <2>7 DEF Step
  <1> QED
    BY <1>2, <1>3, <1>4, <1>5 DEF Next

LEMMA ClaimKept ==
  ASSUME IInv, [Next]_vars
  PROVE  ClaimHolds'
  <1> USE DEF IInv
  <1> SUFFICES ASSUME production, NEW w \in Workers, request'[w] # Nothing
               PROVE  owner'[request'[w].session] = request'[w].user
    BY ModeFixed DEF ClaimHolds
  <1>1. CASE UNCHANGED vars
    BY <1>1 DEF ClaimHolds, vars, database
  <1>2. CASE Next
    <2>1. ASSUME request[w] # Nothing, request'[w].user = request[w].user,
                 request'[w].session = request[w].session
          PROVE  owner'[request'[w].session] = request'[w].user
      <3>1. request[w].session \in Sessions /\ request[w].user \in Users
        BY <2>1 DEF TypeOK, Request
      <3>2. owner[request[w].session] = request[w].user
        BY <2>1 DEF ClaimHolds
      <3>3. owner[request[w].session] # Nobody
        BY <3>1, <3>2
      <3> QED
        BY <2>1, <3>1, <3>2, <3>3, OwnerKept
    <2>2. ASSUME NEW u \in Users, NEW s \in Sessions, Arrive(w, u, s),
                 request'[w].user = u, request'[w].session = s
          PROVE  owner'[request'[w].session] = request'[w].user
      BY <2>2 DEF Arrive, Claim, TypeOK
    <2> QED
      BY <1>2, <2>1, <2>2, StillInFlight
  <1> QED
    BY <1>1, <1>2

LEMMA DraftKept ==
  ASSUME IInv, [Next]_vars
  PROVE  DraftOwned'
  <1> USE DEF IInv
  <1> SUFFICES ASSUME production, NEW s \in Sessions, draft'[s] # Nothing
               PROVE  draftBy'[s] = owner'[s]
    BY ModeFixed DEF DraftOwned
  <1>1. ASSUME UNCHANGED <<draft, draftBy>>
        PROVE  draftBy'[s] = owner'[s]
    <2>1. draft[s] # Nothing
      BY <1>1
    <2>2. draftBy[s] = owner[s] /\ owner[s] # Nobody
      BY <2>1 DEF DraftOwned, TypeOK
    <2> QED
      BY <1>1, <2>2, OwnerKept
  <1>2. ASSUME NEW w \in Workers, SaveDraft(w)
        PROVE  draftBy'[s] = owner'[s]
    <2>1. request[w] # Nothing /\ UNCHANGED owner
      BY <1>2 DEF SaveDraft, Busy
    <2>2. request[w] \in Request /\ owner[request[w].session] = request[w].user
      BY <2>1 DEF TypeOK, ClaimHolds
    <2>3. CASE s = request[w].session
      BY <1>2, <2>1, <2>2, <2>3 DEF SaveDraft, TypeOK
    <2>4. CASE s # request[w].session
      <3>1. draft'[s] = draft[s] /\ draftBy'[s] = draftBy[s]
        BY <1>2, <2>4 DEF SaveDraft, TypeOK
      <3> QED
        BY <3>1, <2>1 DEF DraftOwned
    <2> QED
      BY <2>3, <2>4
  <1>3. ASSUME NEW w \in Workers, DeleteDraft(w)
        PROVE  draftBy'[s] = owner'[s]
    <2>1. UNCHANGED owner /\ s # request[w].session
      BY <1>3 DEF DeleteDraft, TypeOK
    <2>2. draft'[s] = draft[s] /\ draftBy'[s] = draftBy[s]
      BY <1>3, <2>1 DEF DeleteDraft, TypeOK
    <2> QED
      BY <2>1, <2>2 DEF DraftOwned
  <1>4. ASSUME NEW w \in Workers, Step(w), ~SaveDraft(w), ~DeleteDraft(w)
        PROVE  UNCHANGED <<draft, draftBy>>
    BY <1>4 DEF Step, StoreSession, ReadDraft, AskForMore, CreateApproval, CreateTicket,
                AnswerOnly, Fail, database
  <1>5. ASSUME NEW u \in Users, NEW t \in Sessions, Login(u, t)
        PROVE  UNCHANGED <<draft, draftBy>>
    BY <1>5 DEF Login
  <1>6. ASSUME NEW w \in Workers, NEW u \in Users, NEW t \in Sessions, Arrive(w, u, t)
        PROVE  UNCHANGED <<draft, draftBy>>
    BY <1>6 DEF Arrive
  <1>7. CASE UNCHANGED vars
    BY <1>1, <1>7 DEF vars, database
  <1> QED
    BY <1>1, <1>2, <1>3, <1>4, <1>5, <1>6, <1>7 DEF Next

-----------------------------------------------------------------------------
(* The effects.                                                               *)

\* A step appends one approval that no row equals, or leaves them as they are.
LEMMA ApprovalsAfter ==
  ASSUME TypeOK, [Next]_vars
  PROVE  \/ UNCHANGED approvals
         \/ \E w \in Workers, software \in Software \ Restricted :
              LET a == [session |-> request[w].session, user |-> request[w].user,
                        software |-> software]
              IN  /\ request[w] # Nothing /\ request[w].session \in Sessions
                  /\ request[w].user \in KnownUsers
                  /\ ~Approved(a) /\ approvals' = Append(approvals, a)
  <1>1. ASSUME NEW w \in Workers, CreateApproval(w)
        PROVE  \/ UNCHANGED approvals
               \/ \E software \in Software \ Restricted :
                    LET a == [session |-> request[w].session, user |-> request[w].user,
                              software |-> software]
                    IN  /\ request[w] # Nothing /\ request[w].session \in Sessions
                        /\ request[w].user \in KnownUsers
                        /\ ~Approved(a) /\ approvals' = Append(approvals, a)
    <2>1. PICK f \in Faults : \E h \in HintsUnder(f) :
            /\ MayApprove(request[w], h, f)
            /\ LET a == [session |-> request[w].session, user |-> request[w].user,
                         software |-> WantedSoftware(request[w].text, h)]
               IN  approvals' = IF Approved(a) THEN approvals ELSE Append(approvals, a)
      BY <1>1 DEF CreateApproval
    <2>2. PICK h \in HintsUnder(f) :
            /\ MayApprove(request[w], h, f)
            /\ LET a == [session |-> request[w].session, user |-> request[w].user,
                         software |-> WantedSoftware(request[w].text, h)]
               IN  approvals' = IF Approved(a) THEN approvals ELSE Append(approvals, a)
      BY <2>1
    <2> DEFINE software == WantedSoftware(request[w].text, h)
    <2>3. Busy(w, "read")
      BY <1>1 DEF CreateApproval
    <2>4. /\ software \in Software \ Restricted
          /\ request[w].user \in KnownUsers /\ request[w].session \in Sessions
      BY <2>2, <2>3, ApprovalMade
    <2> HIDE DEF software
    <2> QED
      BY <2>2, <2>3, <2>4 DEF Busy, software
  <1>2. ASSUME NEW w \in Workers, Step(w), ~CreateApproval(w)
        PROVE  UNCHANGED approvals
    BY <1>2 DEF Step, StoreSession, ReadDraft, AskForMore, CreateTicket, AnswerOnly,
                SaveDraft, DeleteDraft, Fail, database
  <1>3. ASSUME NEW u \in Users, NEW s \in Sessions, Login(u, s)
        PROVE  UNCHANGED approvals
    BY <1>3 DEF Login
  <1>4. ASSUME NEW w \in Workers, NEW u \in Users, NEW s \in Sessions, Arrive(w, u, s)
        PROVE  UNCHANGED approvals
    BY <1>4 DEF Arrive
  <1>5. CASE UNCHANGED vars
    BY <1>5 DEF vars, database
  <1> QED
    BY <1>1, <1>2, <1>3, <1>4, <1>5 DEF Next

\* A step appends one ticket whose key no row has, or leaves them as they are.
LEMMA TicketsAfter ==
  ASSUME TypeOK, [Next]_vars
  PROVE  \/ UNCHANGED tickets
         \/ \E w \in Workers, asset \in Assets, c \in Categories :
              LET t == [session |-> request[w].session, user |-> request[w].user,
                        asset |-> asset, category |-> c]
              IN  /\ request[w] # Nothing /\ request[w].session \in Sessions
                  /\ request[w].user \in KnownUsers /\ AssetOwner[asset] = request[w].user
                  /\ ~Ticketed(t) /\ tickets' = Append(tickets, t)
  <1>1. ASSUME NEW w \in Workers, CreateTicket(w)
        PROVE  \/ UNCHANGED tickets
               \/ \E asset \in Assets, c \in Categories :
                    LET t == [session |-> request[w].session, user |-> request[w].user,
                              asset |-> asset, category |-> c]
                    IN  /\ request[w] # Nothing /\ request[w].session \in Sessions
                        /\ request[w].user \in KnownUsers /\ AssetOwner[asset] = request[w].user
                        /\ ~Ticketed(t) /\ tickets' = Append(tickets, t)
    <2>1. PICK f \in Faults, c \in Categories : \E h \in HintsUnder(f) :
            /\ MayTicket(request[w], h, f)
            /\ LET t == [session |-> request[w].session, user |-> request[w].user,
                         asset |-> WantedAsset(request[w].text, h), category |-> c]
               IN  tickets' = IF Ticketed(t) THEN tickets ELSE Append(tickets, t)
      BY <1>1 DEF CreateTicket
    <2>2. PICK h \in HintsUnder(f) :
            /\ MayTicket(request[w], h, f)
            /\ LET t == [session |-> request[w].session, user |-> request[w].user,
                         asset |-> WantedAsset(request[w].text, h), category |-> c]
               IN  tickets' = IF Ticketed(t) THEN tickets ELSE Append(tickets, t)
      BY <2>1
    <2> DEFINE asset == WantedAsset(request[w].text, h)
    <2>3. Busy(w, "read")
      BY <1>1 DEF CreateTicket
    <2>4. /\ asset \in Assets /\ AssetOwner[asset] = request[w].user
          /\ request[w].user \in KnownUsers /\ request[w].session \in Sessions
      BY <2>2, <2>3, TicketMade
    <2> HIDE DEF asset
    <2> QED
      BY <2>2, <2>3, <2>4 DEF Busy, asset
  <1>2. ASSUME NEW w \in Workers, Step(w), ~CreateTicket(w)
        PROVE  UNCHANGED tickets
    BY <1>2 DEF Step, StoreSession, ReadDraft, AskForMore, CreateApproval, AnswerOnly,
                SaveDraft, DeleteDraft, Fail, database
  <1>3. ASSUME NEW u \in Users, NEW s \in Sessions, Login(u, s)
        PROVE  UNCHANGED tickets
    BY <1>3 DEF Login
  <1>4. ASSUME NEW w \in Workers, NEW u \in Users, NEW s \in Sessions, Arrive(w, u, s)
        PROVE  UNCHANGED tickets
    BY <1>4 DEF Arrive
  <1>5. CASE UNCHANGED vars
    BY <1>5 DEF vars, database
  <1> QED
    BY <1>1, <1>2, <1>3, <1>4, <1>5 DEF Next

LEMMA EffectsKept ==
  ASSUME IInv, [Next]_vars
  PROVE  EffectsAuthorised'
  <1> USE DEF IInv
  <1>1. \A i \in DOMAIN approvals' :
          /\ approvals'[i].user \in KnownUsers
          /\ approvals'[i].software \notin Restricted
          /\ production => owner'[approvals'[i].session] = approvals'[i].user
    <2>1. ASSUME NEW i \in DOMAIN approvals
          PROVE  /\ approvals[i].user \in KnownUsers
                 /\ approvals[i].software \notin Restricted
                 /\ production => owner'[approvals[i].session] = approvals[i].user
      <3>1. approvals[i] \in Approval
        BY DEF TypeOK
      <3>2. approvals[i].session \in Sessions /\ approvals[i].user \in Users
        BY <3>1 DEF Approval
      <3>3. production => owner[approvals[i].session] # Nobody
        BY <3>2 DEF EffectsAuthorised
      <3> QED
        BY <3>2, <3>3, OwnerKept DEF EffectsAuthorised
    <2>2. ASSUME NEW w \in Workers, NEW software \in Software \ Restricted, NEW a,
                 a = [session |-> request[w].session, user |-> request[w].user,
                      software |-> software],
                 request[w] # Nothing, request[w].session \in Sessions,
                 request[w].user \in KnownUsers, approvals' = Append(approvals, a)
          PROVE  \A i \in DOMAIN approvals' :
                   /\ approvals'[i].user \in KnownUsers
                   /\ approvals'[i].software \notin Restricted
                   /\ production => owner'[approvals'[i].session] = approvals'[i].user
      <3>1. production => owner[request[w].session] = request[w].user
        BY <2>2 DEF ClaimHolds
      <3>2. production => owner'[request[w].session] = request[w].user
        BY <3>1, <2>2, OwnerKept
      <3>3. approvals \in Seq(Approval)
        BY DEF TypeOK
      <3>4. TAKE i \in DOMAIN approvals'
      <3>5. approvals'[i] = a \/ (i \in DOMAIN approvals /\ approvals'[i] = approvals[i])
        BY <2>2, <3>3
      <3> QED
        BY <2>1, <2>2, <3>2, <3>5
    <2>3. CASE UNCHANGED approvals
      BY <2>1, <2>3
    <2> QED
      BY <2>2, <2>3, ApprovalsAfter
  <1>2. \A i \in DOMAIN tickets' :
          /\ tickets'[i].user \in KnownUsers
          /\ AssetOwner[tickets'[i].asset] = tickets'[i].user
          /\ production => owner'[tickets'[i].session] = tickets'[i].user
    <2>1. ASSUME NEW i \in DOMAIN tickets
          PROVE  /\ tickets[i].user \in KnownUsers
                 /\ AssetOwner[tickets[i].asset] = tickets[i].user
                 /\ production => owner'[tickets[i].session] = tickets[i].user
      <3>1. tickets[i] \in Ticket
        BY DEF TypeOK
      <3>2. tickets[i].session \in Sessions /\ tickets[i].user \in Users
        BY <3>1 DEF Ticket
      <3>3. production => owner[tickets[i].session] # Nobody
        BY <3>2 DEF EffectsAuthorised
      <3> QED
        BY <3>2, <3>3, OwnerKept DEF EffectsAuthorised
    <2>2. ASSUME NEW w \in Workers, NEW asset \in Assets, NEW c \in Categories, NEW t,
                 t = [session |-> request[w].session, user |-> request[w].user,
                      asset |-> asset, category |-> c],
                 request[w] # Nothing, request[w].session \in Sessions,
                 request[w].user \in KnownUsers, AssetOwner[asset] = request[w].user,
                 tickets' = Append(tickets, t)
          PROVE  \A i \in DOMAIN tickets' :
                   /\ tickets'[i].user \in KnownUsers
                   /\ AssetOwner[tickets'[i].asset] = tickets'[i].user
                   /\ production => owner'[tickets'[i].session] = tickets'[i].user
      <3>1. production => owner[request[w].session] = request[w].user
        BY <2>2 DEF ClaimHolds
      <3>2. production => owner'[request[w].session] = request[w].user
        BY <3>1, <2>2, OwnerKept
      <3>3. tickets \in Seq(Ticket)
        BY DEF TypeOK
      <3>4. TAKE i \in DOMAIN tickets'
      <3>5. tickets'[i] = t \/ (i \in DOMAIN tickets /\ tickets'[i] = tickets[i])
        BY <2>2, <3>3
      <3> QED
        BY <2>1, <2>2, <3>2, <3>5
    <2>3. CASE UNCHANGED tickets
      BY <2>1, <2>3
    <2> QED
      BY <2>2, <2>3, TicketsAfter
  <1> QED
    BY <1>1, <1>2, ModeFixed DEF EffectsAuthorised

LEMMA OnceKept ==
  ASSUME IInv, [Next]_vars
  PROVE  OneEffectPerKey'
  <1> USE DEF IInv
  <1>1. \A i, j \in DOMAIN approvals' : approvals'[i] = approvals'[j] => i = j
    <2>1. ASSUME NEW a, ~Approved(a), approvals' = Append(approvals, a),
                 NEW i \in DOMAIN approvals', NEW j \in DOMAIN approvals',
                 approvals'[i] = approvals'[j]
          PROVE  i = j
      <3>1. approvals \in Seq(Approval)
        BY DEF TypeOK
      <3>2. ASSUME NEW k \in DOMAIN approvals'
            PROVE  \/ k = Len(approvals) + 1 /\ approvals'[k] = a
                   \/ k \in DOMAIN approvals /\ approvals'[k] = approvals[k]
        BY <2>1, <3>1
      <3> QED
        BY <2>1, <3>2 DEF OneEffectPerKey, Approved
    <2>2. CASE UNCHANGED approvals
      BY <2>2 DEF OneEffectPerKey
    <2> QED
      BY <2>1, <2>2, ApprovalsAfter
  <1>2. \A i, j \in DOMAIN tickets' : SameKey(tickets'[i], tickets'[j]) => i = j
    <2>1. ASSUME NEW t, ~Ticketed(t), tickets' = Append(tickets, t),
                 NEW i \in DOMAIN tickets', NEW j \in DOMAIN tickets',
                 SameKey(tickets'[i], tickets'[j])
          PROVE  i = j
      <3>1. tickets \in Seq(Ticket)
        BY DEF TypeOK
      <3>2. ASSUME NEW k \in DOMAIN tickets'
            PROVE  \/ k = Len(tickets) + 1 /\ tickets'[k] = t
                   \/ k \in DOMAIN tickets /\ tickets'[k] = tickets[k]
        BY <2>1, <3>1
      <3>3. \A k \in DOMAIN tickets : ~SameKey(tickets[k], t) /\ ~SameKey(t, tickets[k])
        BY <2>1 DEF Ticketed, SameKey
      <3> QED
        BY <2>1, <3>2, <3>3 DEF OneEffectPerKey
    <2>2. CASE UNCHANGED tickets
      BY <2>2 DEF OneEffectPerKey
    <2> QED
      BY <2>1, <2>2, TicketsAfter
  <1> QED
    BY <1>1, <1>2 DEF OneEffectPerKey

-----------------------------------------------------------------------------
(* The types.                                                                 *)

\* A request's place and text change together.
LEMMA PlaceType ==
  ASSUME TypeOK, NEW w \in Workers, request[w] # Nothing,
         NEW place \in {"stored", "read", "incomplete", "settled"},
         NEW text \in Message \cup {Nothing}, At(w, place, text),
         text # Nothing <=> place \in {"read", "incomplete"}
  PROVE  /\ request' \in [Workers -> Request \cup {Nothing}]
         /\ \A v \in Workers : request'[v] # Nothing =>
              (request'[v].text # Nothing <=> request'[v].at \in {"read", "incomplete"})
  <1>1. request[w] \in Request /\ request \in [Workers -> Request \cup {Nothing}]
    BY DEF TypeOK
  <1>2. [request[w] EXCEPT !.at = place, !.text = text] \in Request
    BY <1>1 DEF Request
  <1>3. request' = [request EXCEPT ![w] = [request[w] EXCEPT !.at = place, !.text = text]]
    BY <1>1 DEF At
  <1>4. request' \in [Workers -> Request \cup {Nothing}]
    BY <1>1, <1>2, <1>3
  <1>5. ASSUME NEW v \in Workers, request'[v] # Nothing
        PROVE  request'[v].text # Nothing <=> request'[v].at \in {"read", "incomplete"}
    <2>1. CASE v = w
      <3>1. request'[v].text = text /\ request'[v].at = place
        BY <1>1, <1>3, <2>1 DEF Request
      <3> QED
        BY <3>1
    <2>2. CASE v # w
      BY <1>1, <1>3, <1>5, <2>2 DEF TypeOK
    <2> QED
      BY <2>1, <2>2
  <1> QED
    BY <1>4, <1>5

LEMMA DoneType ==
  ASSUME TypeOK, NEW w \in Workers, Done(w)
  PROVE  /\ request' \in [Workers -> Request \cup {Nothing}]
         /\ \A v \in Workers : request'[v] # Nothing =>
              (request'[v].text # Nothing <=> request'[v].at \in {"read", "incomplete"})
  BY DEF TypeOK, Done

\* The conjuncts of the type invariant about requests, and about the rest.
RequestsOK ==
  /\ request \in [Workers -> Request \cup {Nothing}]
  /\ \A w \in Workers : request[w] # Nothing =>
       (request[w].text # Nothing <=> request[w].at \in {"read", "incomplete"})
TablesOK ==
  /\ owner \in [Sessions -> Users \cup {Nobody}]
  /\ draft \in [Sessions -> Draft \cup {Nothing}]
  /\ draftBy \in [Sessions -> Users \cup {Nobody}]
  /\ \A s \in Sessions : draft[s] # Nothing => draftBy[s] # Nobody

LEMMA TypeKept ==
  ASSUME TypeOK, [Next]_vars
  PROVE  TypeOK'
  <1>1. approvals' \in Seq(Approval)
    <2>1. ASSUME NEW w \in Workers, NEW software \in Software \ Restricted,
                 request[w].session \in Sessions, request[w].user \in KnownUsers
          PROVE  [session |-> request[w].session, user |-> request[w].user,
                  software |-> software] \in Approval
      BY <2>1 DEF Approval
    <2>2. approvals \in Seq(Approval)
      BY DEF TypeOK
    <2>3. ASSUME NEW a \in Approval, approvals' = Append(approvals, a)
          PROVE  approvals' \in Seq(Approval)
      BY <2>2, <2>3
    <2>4. CASE UNCHANGED approvals
      BY <2>2, <2>4
    <2>5. CASE ~UNCHANGED approvals
      <3>1. PICK a \in Approval : approvals' = Append(approvals, a)
        BY <2>1, <2>5, ApprovalsAfter
      <3> QED
        BY <2>3, <3>1
    <2> QED
      BY <2>4, <2>5
  <1>2. tickets' \in Seq(Ticket)
    <2>1. ASSUME NEW w \in Workers, NEW asset \in Assets, NEW c \in Categories,
                 request[w].session \in Sessions, request[w].user \in KnownUsers
          PROVE  [session |-> request[w].session, user |-> request[w].user,
                  asset |-> asset, category |-> c] \in Ticket
      BY <2>1 DEF Ticket
    <2>2. tickets \in Seq(Ticket)
      BY DEF TypeOK
    <2>3. ASSUME NEW t \in Ticket, tickets' = Append(tickets, t)
          PROVE  tickets' \in Seq(Ticket)
      BY <2>2, <2>3
    <2>4. CASE UNCHANGED tickets
      BY <2>2, <2>4
    <2>5. CASE ~UNCHANGED tickets
      <3>1. PICK t \in Ticket : tickets' = Append(tickets, t)
        BY <2>1, <2>5, TicketsAfter
      <3> QED
        BY <2>3, <3>1
    <2> QED
      BY <2>4, <2>5
  <1>3. RequestsOK' /\ TablesOK'
    <2>1. ASSUME NEW u \in Users, NEW s \in Sessions, Login(u, s)
          PROVE  RequestsOK' /\ TablesOK'
      BY <2>1 DEF Login, RequestsOK, TablesOK, TypeOK
    <2>2. ASSUME NEW w \in Workers, NEW u \in Users, NEW s \in Sessions, Arrive(w, u, s)
          PROVE  RequestsOK' /\ TablesOK'
      <3>1. TablesOK'
        BY <2>2 DEF Arrive, Claim, TablesOK, TypeOK
      <3>2. CASE UNCHANGED request
        BY <3>1, <3>2 DEF RequestsOK, TypeOK
      <3>3. CASE request' = [request EXCEPT ![w] =
                   [at |-> "bound", user |-> u, session |-> s, text |-> Nothing]]
        <4>1. [at |-> "bound", user |-> u, session |-> s, text |-> Nothing] \in Request
          BY DEF Request
        <4> QED
          BY <3>1, <3>3, <4>1 DEF RequestsOK, TypeOK
      <3> QED
        BY <2>2, <3>2, <3>3 DEF Arrive
    <2>3. ASSUME NEW w \in Workers, StoreSession(w)
          PROVE  RequestsOK' /\ TablesOK'
      <3>1. request[w] \in Request
        BY <2>3 DEF StoreSession, Busy, TypeOK
      <3>2. TablesOK'
        BY <2>3, <3>1 DEF StoreSession, TablesOK, TypeOK, Request
      <3> QED
        BY <2>3, <3>2, PlaceType DEF StoreSession, Busy, RequestsOK
    <2>4. ASSUME NEW w \in Workers, ReadDraft(w)
          PROVE  RequestsOK' /\ TablesOK'
      <3>1. PICK m \in Messages : At(w, "read", Effective(m, draft[request[w].session]))
        BY <2>4 DEF ReadDraft
      <3>2. request[w] # Nothing /\ request[w] \in Request /\ UNCHANGED database
        BY <2>4 DEF ReadDraft, Busy, TypeOK
      <3>3. draft[request[w].session] \in Draft \cup {Nothing}
        BY <3>2 DEF TypeOK, Request
      <3>4. Effective(m, draft[request[w].session]) \in Message
        BY <3>3, EffectiveType
      <3>5. Effective(m, draft[request[w].session]) # Nothing
        BY <3>4
      <3>6. TablesOK'
        BY <3>2 DEF database, TablesOK, TypeOK
      <3> QED
        BY <3>1, <3>2, <3>4, <3>5, <3>6, PlaceType DEF RequestsOK
    <2>5. ASSUME NEW w \in Workers, AskForMore(w)
          PROVE  RequestsOK' /\ TablesOK'
      <3>1. request[w] # Nothing /\ request[w] \in Request /\ request[w].text # Nothing
        BY <2>5 DEF AskForMore, Busy, TypeOK
      <3>2. request[w].text \in Message
        BY <3>1 DEF Request
      <3>3. TablesOK'
        BY <2>5 DEF AskForMore, database, TablesOK, TypeOK
      <3> QED
        BY <2>5, <3>1, <3>2, <3>3, PlaceType DEF AskForMore, RequestsOK
    <2>6. ASSUME NEW w \in Workers, CreateApproval(w) \/ CreateTicket(w) \/ AnswerOnly(w)
          PROVE  RequestsOK' /\ TablesOK'
      <3>1. TablesOK'
        BY <2>6 DEF CreateApproval, CreateTicket, AnswerOnly, database, TablesOK, TypeOK
      <3>2. request[w] # Nothing /\ At(w, "settled", Nothing)
        BY <2>6 DEF CreateApproval, CreateTicket, AnswerOnly, Busy
      <3> QED
        BY <3>1, <3>2, PlaceType DEF RequestsOK
    <2>7. ASSUME NEW w \in Workers, SaveDraft(w)
          PROVE  RequestsOK' /\ TablesOK'
      <3>1. request[w] \in Request /\ request[w].text # Nothing
        BY <2>7 DEF SaveDraft, Busy, TypeOK
      <3>2. Slots(request[w].text) \in Draft
        BY <3>1 DEF Slots, Draft, Request, Message
      <3>3. TablesOK'
        BY <2>7, <3>1, <3>2 DEF SaveDraft, TablesOK, TypeOK, Request
      <3> QED
        BY <2>7, <3>3, DoneType DEF SaveDraft, RequestsOK
    <2>8. ASSUME NEW w \in Workers, DeleteDraft(w)
          PROVE  RequestsOK' /\ TablesOK'
      <3>1. TablesOK'
        BY <2>8 DEF DeleteDraft, TablesOK, TypeOK
      <3> QED
        BY <2>8, <3>1, DoneType DEF DeleteDraft, RequestsOK
    <2>9. ASSUME NEW w \in Workers, Fail(w)
          PROVE  RequestsOK' /\ TablesOK'
      <3>1. TablesOK'
        BY <2>9 DEF Fail, database, TablesOK, TypeOK
      <3> QED
        BY <2>9, <3>1, DoneType DEF Fail, RequestsOK
    <2>10. CASE UNCHANGED vars
      BY <2>10 DEF vars, database, RequestsOK, TablesOK, TypeOK
    <2> QED
      BY <2>1, <2>2, <2>3, <2>4, <2>5, <2>6, <2>7, <2>8, <2>9, <2>10 DEF Next, Step
  <1>4. production' \in BOOLEAN
    BY ModeFixed DEF TypeOK
  <1> QED
    BY <1>1, <1>2, <1>3, <1>4 DEF TypeOK, RequestsOK, TablesOK

-----------------------------------------------------------------------------
(* The theorems.                                                              *)

LEMMA Inductive == IInv /\ [Next]_vars => IInv'
  BY TypeKept, ClaimKept, DraftKept, EffectsKept, OnceKept DEF IInv

LEMMA Always == Spec => []IInv
  BY InitInv, Inductive, PTL DEF Spec

\* The store's rows and the requests on its threads keep their shape.
THEOREM TypeCorrect == Spec => []TypeOK
  <1>1. IInv => TypeOK
    BY DEF IInv
  <1> QED
    BY <1>1, Always, PTL

\* In production a session never changes hands, although each request writes its
\* user over the owner (app.py:182).
THEOREM OwnersStand == Spec => OwnerStands
  <1>1. IInv /\ [Next]_vars =>
          [production => \A s \in Sessions : owner[s] # Nobody => owner'[s] = owner[s]]_vars
    BY OwnerKept
  <1> QED
    BY <1>1, Always, PTL DEF Spec, OwnerStands

\* In production no request builds on what another user has said.
THEOREM DraftsPrivate == Spec => []DraftPrivate
  <1>1. IInv => DraftPrivate
    <2> SUFFICES ASSUME IInv, production, NEW w \in Workers, request[w] # Nothing,
                        draft[request[w].session] # Nothing
                 PROVE  draftBy[request[w].session] = request[w].user
      BY DEF DraftPrivate
    <2>1. request[w].session \in Sessions
      BY DEF IInv, TypeOK, Request
    <2> QED
      BY <2>1 DEF IInv, ClaimHolds, DraftOwned
  <1> QED
    BY <1>1, Always, PTL

\* No hint of the model and no sharing of a session has an effect that its user
\* is not entitled to (graph.py:105-113, 162-180).
THEOREM EffectsAlwaysAuthorised == Spec => []EffectsAuthorised
  <1>1. IInv => EffectsAuthorised
    BY DEF IInv
  <1> QED
    BY <1>1, Always, PTL

\* A repeated or concurrent request has one effect (storage.py:85, storage.py:120).
THEOREM EffectsOnce == Spec => []OneEffectPerKey
  <1>1. IInv => OneEffectPerKey
    BY DEF IInv
  <1> QED
    BY <1>1, Always, PTL

-----------------------------------------------------------------------------
(* A session of tests.                                                        *)

\* Entries that speak against a test.
Faulty == {"broken", "error", "uncovered"}
Raises == {"none", "Skipped", "Error"}

\* What is asked of a function that a test may call: an entry against the test
\* comes with an exception, and embeddings are taken for unsupported only when
\* they were already or the provider says so.
ResultOK(result) ==
    /\ result.entries \in Seq(Entries)
    /\ result.raises \in Raises
    /\ result.embedding \in {"", "yes", "no"}
    /\ result.declared \in BOOLEAN
    /\ result.raises = "none" => \A i \in 1..Len(result.entries) : result.entries[i] \notin Faulty
    /\ result.embedding = "no" \/ (\E i \in 1..Len(result.entries) : result.entries[i] = "uncovered") =>
           embedding = "no" \/ result.declared

Embeddings == {"", "yes", "no"}

LEMMA DoesOK ==
    ASSUME embedding \in Embeddings, NEW entries \in Seq(Entries), NEW raises \in Raises,
           raises = "none" => \A i \in 1..Len(entries) : entries[i] \notin Faulty,
           \A i \in 1..Len(entries) : entries[i] # "uncovered"
    PROVE  ResultOK(Does(entries, raises))
BY DEF Does, ResultOK, Embeddings

LEMMA TimedOK ==
    ASSUME embedding \in Embeddings, NEW source \in {"app", "framework"}, NEW reply
    PROVE  ResultOK(Timed(source, reply))
<1>1. <<source>> \in Seq(Entries) /\ Len(<<source>>) = 1 /\ <<source>>[1] = source
  BY DEF Entries
<1> DEFINE entries == <<source>>
           raised == IF reply \in Errors THEN "Error" ELSE "none"
<1>2. raised \in Raises
  BY DEF Raises
<1>3. \A i \in 1..Len(entries) : entries[i] \notin Faulty
  BY <1>1 DEF Faulty
<1> HIDE DEF entries, raised
<1>4. ResultOK(Does(entries, raised))
  BY <1>1, <1>2, <1>3, DoesOK DEF Faulty, entries
<1> QED BY <1>4 DEF Timed, entries, raised

\* An assertion is recorded before it raises.
LEMMA AssertedOK ==
    ASSUME embedding \in Embeddings, NEW result, ResultOK(result), NEW holds,
           \A i \in 1..Len(result.entries) : result.entries[i] # "uncovered"
    PROVE  ResultOK(Asserted(result, holds))
<1>1. CASE result.raises # "none"
  BY <1>1 DEF Asserted
<1>2. CASE result.raises = "none"
  <2> DEFINE last == IF holds THEN "held" ELSE "broken"
             raised == IF holds THEN "none" ELSE "Error"
             entries == Append(result.entries, last)
  <2>1. Asserted(result, holds) = Does(entries, raised)
    BY <1>2 DEF Asserted
  <2>2. /\ result.entries \in Seq(Entries) /\ last \in Entries
        /\ \A i \in 1..Len(result.entries) : result.entries[i] \notin Faulty
    BY <1>2 DEF ResultOK, Entries
  <2>3. last = "held" \/ (last = "broken" /\ raised = "Error")
    OBVIOUS
  <2>4. raised \in Raises
    BY DEF Raises
  <2> HIDE DEF last, raised
  <2>5. /\ entries \in Seq(Entries) /\ Len(entries) = Len(result.entries) + 1
        /\ entries[Len(result.entries) + 1] = last
        /\ \A i \in 1..Len(result.entries) : entries[i] = result.entries[i]
    BY <2>2
  <2> HIDE DEF entries
  <2>6. \A i \in 1..Len(entries) : i \in 1..Len(result.entries) \/ i = Len(result.entries) + 1
    BY <2>2, <2>5
  <2>7. raised = "none" => \A i \in 1..Len(entries) : entries[i] \notin Faulty
    BY <2>2, <2>3, <2>5, <2>6 DEF Faulty
  <2>8. \A i \in 1..Len(entries) : entries[i] # "uncovered"
    BY <2>2, <2>3, <2>5, <2>6 DEF Faulty
  <2>9. ResultOK(Does(entries, raised))
    BY <2>4, <2>5, <2>7, <2>8, DoesOK
  <2> QED BY <2>1, <2>9
<1> QED BY <1>1, <1>2

\* The judge, the semantic assertion and the detection of hallucinations leave
\* nothing that speaks of embeddings.
NoneUncovered(result) == \A i \in 1..Len(result.entries) : result.entries[i] # "uncovered"

LEMMA TimedCovers ==
    ASSUME NEW source \in {"app", "framework"}, NEW reply
    PROVE  NoneUncovered(Timed(source, reply))
BY DEF Timed, Does, NoneUncovered

LEMMA LlmJudgeOK ==
    ASSUME embedding \in Embeddings, NEW reply
    PROVE  ResultOK(LlmJudge(reply)) /\ NoneUncovered(LlmJudge(reply))
<1>1. ResultOK(Timed("framework", reply)) /\ NoneUncovered(Timed("framework", reply))
  BY TimedOK, TimedCovers
<1> DEFINE entries == Append(<<"framework">>, "judged")
<1>2. CASE LlmJudge(reply) = Timed("framework", reply)
  BY <1>1, <1>2
<1>3. CASE LlmJudge(reply) = Does(Append(<<"framework">>, "judged"), "none")
  <2>1. /\ entries \in Seq(Entries) /\ Len(entries) = 2
        /\ entries[1] = "framework" /\ entries[2] = "judged" /\ "none" \in Raises
    <3>1. <<"framework">> \in Seq(Entries) /\ "judged" \in Entries /\ Len(<<"framework">>) = 1
      BY DEF Entries
    <3> QED BY <3>1 DEF Raises
  <2> HIDE DEF entries
  <2>2. \A i \in 1..Len(entries) : entries[i] \in {"framework", "judged"}
    BY <2>1
  <2>3. ResultOK(Does(entries, "none"))
    BY <2>1, <2>2, DoesOK DEF Faulty
  <2>4. NoneUncovered(Does(entries, "none"))
    BY <2>2 DEF NoneUncovered, Does
  <2> QED BY <1>3, <2>3, <2>4 DEF entries
<1> QED BY <1>2, <1>3 DEF LlmJudge, Timed, Does

LEMMA DetectionOK ==
    ASSUME embedding \in Embeddings, NEW claims, NEW extracted, NEW verified,
           NEW noClaims \in {"inconclusive", "not_applicable"}
    PROVE  /\ ResultOK(Detection(claims, extracted, verified, noClaims))
           /\ NoneUncovered(Detection(claims, extracted, verified, noClaims))
<1>1. ASSUME NEW entries \in Seq(Entries), NEW raised \in Raises,
             \A i \in 1..Len(entries) : entries[i] # "uncovered" /\ entries[i] # "broken",
             raised = "none" => \A i \in 1..Len(entries) : entries[i] # "error"
      PROVE  ResultOK(Does(entries, raised)) /\ NoneUncovered(Does(entries, raised))
  <2>1. raised = "none" => \A i \in 1..Len(entries) : entries[i] \notin Faulty
    BY <1>1 DEF Faulty
  <2> QED BY <1>1, <2>1, DoesOK DEF NoneUncovered, Does
<1>2. ASSUME NEW a \in Entries, NEW b \in Entries, NEW raised \in Raises,
             {a, b} \cap {"uncovered", "broken"} = {}, raised = "none" => "error" \notin {a, b}
      PROVE  ResultOK(Does(<<a, b>>, raised)) /\ NoneUncovered(Does(<<a, b>>, raised))
  <2> DEFINE entries == <<a, b>>
  <2>1. entries \in Seq(Entries) /\ Len(entries) = 2 /\ entries[1] = a /\ entries[2] = b
    BY <1>2
  <2> HIDE DEF entries
  <2>2. \A i \in 1..Len(entries) : entries[i] \in {a, b}
    BY <2>1
  <2>3. ResultOK(Does(entries, raised)) /\ NoneUncovered(Does(entries, raised))
    BY <1>1, <1>2, <2>1, <2>2
  <2> QED BY <2>3 DEF entries
<1>3. ASSUME NEW a \in Entries, NEW b \in Entries, NEW d \in Entries, NEW raised \in Raises,
             {a, b, d} \cap {"uncovered", "broken"} = {}, raised = "none" => "error" \notin {a, b, d}
      PROVE  ResultOK(Does(<<a, b, d>>, raised)) /\ NoneUncovered(Does(<<a, b, d>>, raised))
  <2> DEFINE entries == <<a, b, d>>
  <2>1. /\ entries \in Seq(Entries) /\ Len(entries) = 3
        /\ entries[1] = a /\ entries[2] = b /\ entries[3] = d
    BY <1>3
  <2> HIDE DEF entries
  <2>2. \A i \in 1..Len(entries) : entries[i] \in {a, b, d}
    BY <2>1
  <2>3. ResultOK(Does(entries, raised)) /\ NoneUncovered(Does(entries, raised))
    BY <1>1, <1>3, <2>1, <2>2
  <2> QED BY <2>3 DEF entries
<1>4. /\ {"framework", "error", "concluded", noClaims} \subseteq Entries
      /\ {"none", "Error"} \subseteq Raises
  BY DEF Entries, Raises
<1>5. ResultOK(Does(<<"framework", "error">>, "Error")) /\ NoneUncovered(Does(<<"framework", "error">>, "Error"))
  BY <1>2, <1>4
<1>6. ResultOK(Does(<<"framework", noClaims>>, "none")) /\ NoneUncovered(Does(<<"framework", noClaims>>, "none"))
  BY <1>2, <1>4
<1>7. /\ ResultOK(Does(<<"framework", "framework", "error">>, "Error"))
      /\ NoneUncovered(Does(<<"framework", "framework", "error">>, "Error"))
  BY <1>3, <1>4
<1>8. /\ ResultOK(Does(<<"framework", "framework", "concluded">>, "none"))
      /\ NoneUncovered(Does(<<"framework", "framework", "concluded">>, "none"))
  BY <1>3, <1>4
<1> QED BY <1>5, <1>6, <1>7, <1>8 DEF Detection

LEMMA Retold ==
    ASSUME NEW entries, NEW raises, NEW e, NEW d
    PROVE  LET r == [Does(entries, raises) EXCEPT !.embedding = e, !.declared = d] IN
           r.entries = entries /\ r.raises = raises /\ r.embedding = e /\ r.declared = d
BY Zenon DEF Does

\* With a lack of embeddings the measured similarity is "uncovered", and then
\* either it was known or the provider just declared it.
LEMMA SimilarityOK ==
    ASSUME embedding \in Embeddings, NEW probe \in {"good", "unsupported", "transient"}, NEW required,
           NEW texts \in {<<"good", "good">>, <<"good", "unsupported">>, <<"transient", "good">>}
    PROVE  ResultOK(AssertSimilarity(probe, texts, required))
<1> DEFINE
      capable  == AvailableAfter(probe)
      probed   == IF embedding = "" THEN <<"framework">> ELSE <<>>
      sent     == IF capable = "yes" THEN Min({i \in {1} : texts[i] \in Errors} \cup {2}) ELSE 0
      refused  == sent > 0 /\ texts[sent] \in Errors
      lacking  == capable = "no" \/ (refused /\ texts[sent] = "unsupported")
      measured == probed \o [i \in 1..sent |-> "framework"]
      must     == required \/ policy = "required"
      outcome  ==
          IF lacking
          THEN Does(Append(measured, "uncovered"), IF must THEN "Error" ELSE "Skipped")
          ELSE IF capable = "" \/ refused THEN Does(measured, "Error")
          ELSE Does(Append(measured, IF texts[2] = "good" THEN "held" ELSE "broken"),
                    IF texts[2] = "good" THEN "none" ELSE "Error")
      last     == IF lacking THEN "uncovered" ELSE IF texts[2] = "good" THEN "held" ELSE "broken"
      raised   == IF lacking THEN IF must THEN "Error" ELSE "Skipped"
                  ELSE IF capable = "" \/ refused THEN "Error"
                  ELSE IF texts[2] = "good" THEN "none" ELSE "Error"
      entries  == IF ~lacking /\ (capable = "" \/ refused) THEN measured ELSE Append(measured, last)
      told     == \/ embedding = "" /\ probe = "unsupported"
                  \/ refused /\ texts[sent] = "unsupported"
      after    == IF lacking THEN "no" ELSE capable
<1>1. AssertSimilarity(probe, texts, required)
        = [Does(entries, raised) EXCEPT !.embedding = after, !.declared = told]
  <2>1. AssertSimilarity(probe, texts, required) = [outcome EXCEPT !.embedding = after, !.declared = told]
    BY DEF AssertSimilarity
  <2> HIDE DEF lacking, refused, measured, capable, must, told, after
  <2>2. outcome = Does(entries, raised)
    <3>1. CASE lacking
      BY <3>1, Zenon
    <3>2. CASE ~lacking /\ (capable = "" \/ refused)
      BY <3>2, Zenon
    <3>3. CASE ~lacking /\ ~(capable = "" \/ refused)
      BY <3>3, Zenon
    <3> QED BY <3>1, <3>2, <3>3
  <2> HIDE DEF outcome, entries, raised
  <2> QED BY <2>1, <2>2
<1>2. capable \in Embeddings
  BY DEF AvailableAfter, Embeddings
<1>3. capable = "no" => embedding = "no" \/ (embedding = "" /\ probe = "unsupported")
  BY DEF AvailableAfter, Embeddings, Answers
<1>4. sent \in {0, 1, 2}
  <2>1. \A m : m = Min({i \in {1} : texts[i] \in Errors} \cup {2}) => m \in {1, 2}
    <3> DEFINE first == {i \in {1} : texts[i] \in Errors} \cup {2}
    <3>1. first = {2} \/ first = {1, 2}
      OBVIOUS
    <3> HIDE DEF first
    <3>2. Min(first) \in first
      <4>1. \E x \in first : \A y \in first : x =< y
        BY <3>1
      <4> QED BY <4>1, Zenon DEF Min
    <3> QED BY <3>1, <3>2 DEF first
  <2> QED BY <2>1
<1>5. measured \in Seq(Entries) /\ \A i \in 1..Len(measured) : measured[i] = "framework"
  <2> DEFINE asked == [i \in 1..sent |-> "framework"]
  <2>1. asked \in Seq(Entries) /\ Len(asked) = sent /\ \A i \in 1..sent : asked[i] = "framework"
    <3> HIDE DEF sent
    <3>1. asked \in [1..sent -> Entries] /\ sent \in Nat
      BY <1>4 DEF Entries
    <3>2. asked \in Seq(Entries) /\ Len(asked) = sent
      BY <3>1
    <3> QED BY <3>2
  <2>2. probed \in Seq(Entries) /\ \A i \in 1..Len(probed) : probed[i] = "framework"
    <3> DEFINE one == <<"framework">>
    <3>1. one \in Seq(Entries) /\ Len(one) = 1 /\ one[1] = "framework"
      BY DEF Entries
    <3> HIDE DEF one
    <3>2. \A i \in 1..Len(one) : one[i] = "framework"
      BY <3>1
    <3>3. probed = one \/ probed = <<>>
      BY DEF one
    <3> HIDE DEF probed
    <3>4. CASE probed = one
      BY <3>1, <3>2, <3>4
    <3>5. CASE probed = <<>>
      BY <3>5
    <3> QED BY <3>3, <3>4, <3>5
  <2> HIDE DEF asked, probed, sent
  <2>3. measured = probed \o asked
    BY DEF asked
  <2> HIDE DEF measured
  <2> QED BY <2>1, <2>2, <2>3
<1> HIDE DEF capable, probed, sent, measured
<1>6. /\ last \in {"uncovered", "held", "broken"} /\ (last = "uncovered" => lacking)
      /\ raised = "none" => ~lacking /\ last = "held"
      /\ raised \in Raises
  BY DEF Raises
<1>7. after \in Embeddings /\ told \in BOOLEAN
  BY <1>2 DEF Embeddings
<1>8. lacking => embedding = "no" \/ told
  <2>1. CASE capable = "no"
    BY <1>3, <2>1, Zenon
  <2>2. CASE refused /\ texts[sent] = "unsupported"
    BY <2>2, Zenon
  <2> QED BY <2>1, <2>2, Zenon
<1>9. after = "no" => lacking
  BY DEF Embeddings
<1> HIDE DEF last, raised, after, told, lacking, refused, must
<1>10. /\ entries \in Seq(Entries)
       /\ \A i \in 1..Len(entries) : entries[i] = "framework" \/ entries[i] = last
  <2>1. last \in Entries
    BY <1>6 DEF Entries
  <2> DEFINE longer == Append(measured, last)
  <2>2. longer \in Seq(Entries) /\ \A i \in 1..Len(longer) : longer[i] = "framework" \/ longer[i] = last
    BY <2>1, <1>5
  <2> HIDE DEF longer
  <2>3. entries = measured \/ entries = longer
    BY DEF longer
  <2> HIDE DEF entries
  <2> QED BY <2>2, <2>3, <1>5
<1> HIDE DEF entries
<1> DEFINE result == AssertSimilarity(probe, texts, required)
<1>11. /\ result.entries = entries /\ result.raises = raised
       /\ result.embedding = after /\ result.declared = told
  <2>1. result = [Does(entries, raised) EXCEPT !.embedding = after, !.declared = told]
    BY <1>1
  <2> HIDE DEF result
  <2> QED BY <2>1, Retold
<1> HIDE DEF result
<1>12. raised = "none" => \A i \in 1..Len(entries) : entries[i] \notin Faulty
  BY <1>6, <1>10 DEF Faulty
<1>13. (after = "no" \/ \E i \in 1..Len(entries) : entries[i] = "uncovered") => embedding = "no" \/ told
  BY <1>6, <1>8, <1>9, <1>10
<1>14. ResultOK(result)
  BY <1>6, <1>7, <1>10, <1>11, <1>12, <1>13 DEF ResultOK, Embeddings
<1> QED BY <1>14 DEF result

LEMMA EvaluationsOK ==
    ASSUME embedding \in Embeddings, NEW result \in Evaluations
    PROVE  ResultOK(result)
<1>1. ASSUME NEW reply PROVE ResultOK(AskApplication(reply))
  BY TimedOK DEF AskApplication
<1>2. ResultOK(Does(<<"gold">>, "none"))
  <2> DEFINE entries == <<"gold">>
  <2>1. entries \in Seq(Entries) /\ Len(entries) = 1 /\ entries[1] = "gold" /\ "none" \in Raises
    BY DEF Entries, Raises
  <2> HIDE DEF entries
  <2>2. \A i \in 1..Len(entries) : entries[i] \notin Faulty /\ entries[i] # "uncovered"
    BY <2>1 DEF Faulty
  <2>3. ResultOK(Does(entries, "none"))
    BY <2>1, <2>2, DoesOK
  <2> QED BY <2>3 DEF entries
<1>3. ResultOK(Detection(0, "good", "good", "not_applicable"))
  BY DetectionOK
<1>4. ASSUME NEW reply PROVE ResultOK(AssertJudge(reply))
  <2> DEFINE holds == reply = "good"
  <2> HIDE DEF holds
  <2>1. ResultOK(Asserted(LlmJudge(reply), holds))
    BY LlmJudgeOK, AssertedOK DEF NoneUncovered
  <2> QED BY <2>1 DEF AssertJudge, holds
<1>5. ASSUME NEW reply PROVE ResultOK(AssertSemantic(reply))
  <2> DEFINE holds == reply = "good"
  <2> HIDE DEF holds
  <2>1. ResultOK(Asserted(Timed("framework", reply), holds))
    BY TimedOK, TimedCovers, AssertedOK DEF NoneUncovered
  <2> QED BY <2>1 DEF AssertSemantic, holds
<1>6. ASSUME NEW claims, NEW verified PROVE ResultOK(AssertHallucination(claims, "good", verified))
  <2> DEFINE holds == claims > 0 /\ verified = "good"
  <2> HIDE DEF holds
  <2>1. ResultOK(Asserted(Detection(claims, "good", verified, "inconclusive"), holds))
    BY DetectionOK, AssertedOK DEF NoneUncovered
  <2> QED BY <2>1 DEF AssertHallucination, holds
<1> DEFINE
      Some         == {AskApplication("good"), AskApplication("transient"), Does(<<"gold">>, "none"),
                       Detection(0, "good", "good", "not_applicable")}
      Judged       == {AssertJudge(reply) : reply \in JsonReplies}
      Compared     == {AssertSemantic(reply) : reply \in JsonReplies}
      Hallucinated == {AssertHallucination(claims, "good", verified) :
                           claims \in {0, 1}, verified \in JsonReplies}
      Similar      == {AssertSimilarity(probe, texts, required) :
                           probe \in {"good", "unsupported", "transient"}, required \in BOOLEAN,
                           texts \in {<<"good", "good">>, <<"good", "unsupported">>, <<"transient", "good">>}}
<1>7. \A r \in Some : ResultOK(r)
  BY <1>1, <1>2, <1>3, ZenonT(60)
<1>8. \A r \in Judged : ResultOK(r)
  BY <1>4, Zenon
<1>9. \A r \in Compared : ResultOK(r)
  BY <1>5, Zenon
<1>10. \A r \in Hallucinated : ResultOK(r)
  BY <1>6
<1>11. \A r \in Similar : ResultOK(r)
  <2> TAKE r \in Similar
  <2>1. PICK probe \in {"good", "unsupported", "transient"}, required \in BOOLEAN,
            texts \in {<<"good", "good">>, <<"good", "unsupported">>, <<"transient", "good">>} :
                r = AssertSimilarity(probe, texts, required)
    OBVIOUS
  <2> QED BY <2>1, SimilarityOK
<1>12. result \in Some \/ result \in Judged \/ result \in Compared \/ result \in Hallucinated \/ result \in Similar
  BY DEF Evaluations
<1> HIDE DEF Some, Judged, Compared, Hallucinated, Similar
<1> QED BY <1>7, <1>8, <1>9, <1>10, <1>11, <1>12

\* An entry that a call does not add is counted as before.
LEMMA PlusCounts ==
    ASSUME NEW counts \in [Entries -> Nat], NEW entries \in Seq(Entries)
    PROVE  /\ Plus(counts, entries) \in [Entries -> Nat]
           /\ \A e \in Entries : (\A i \in 1..Len(entries) : entries[i] # e) => Plus(counts, entries)[e] = counts[e]
<1>1. \A e \in Entries : /\ IsFiniteSet({i \in DOMAIN entries : entries[i] = e})
                         /\ Cardinality({i \in DOMAIN entries : entries[i] = e}) \in Nat
  <2> TAKE e \in Entries
  <2>1. IsFiniteSet(1..Len(entries))
    BY FS_Interval
  <2>2. {i \in DOMAIN entries : entries[i] = e} \subseteq 1..Len(entries)
    OBVIOUS
  <2>3. IsFiniteSet({i \in DOMAIN entries : entries[i] = e})
    BY <2>1, <2>2, FS_Subset
  <2> QED BY <2>3, FS_CardinalityType
<1>2. Plus(counts, entries) \in [Entries -> Nat]
  <2> DEFINE extra == [e \in Entries |-> Cardinality({i \in DOMAIN entries : entries[i] = e})]
  <2>1. \A e \in Entries : extra[e] \in Nat
    BY <1>1
  <2>2. Plus(counts, entries) = [e \in Entries |-> counts[e] + extra[e]]
    BY DEF Plus
  <2> HIDE DEF extra
  <2> QED BY <2>1, <2>2
<1>3. ASSUME NEW e \in Entries, \A i \in 1..Len(entries) : entries[i] # e
      PROVE  Plus(counts, entries)[e] = counts[e]
  <2>1. {i \in DOMAIN entries : entries[i] = e} = {}
    BY <1>3
  <2>2. Plus(counts, entries)[e] = counts[e] + Cardinality({i \in DOMAIN entries : entries[i] = e})
    BY Zenon DEF Plus
  <2>3. Cardinality({i \in DOMAIN entries : entries[i] = e}) = 0
    BY <2>1, FS_EmptySet, Zenon
  <2>4. counts[e] \in Nat
    OBVIOUS
  <2> QED BY <2>2, <2>3, <2>4
<1> QED BY <1>2, <1>3

LEMMA NoEntriesType == NoEntries \in [Entries -> Nat] /\ \A e \in Entries : NoEntries[e] = 0
BY DEF NoEntries

------------------------------------------------------------------------------
\* What makes the records faithful: while a test is at work its run is the last
\* and its record the active one, and between tests no record is active; only
\* the last run can still change its verdict; a task writes into the run that
\* started it; a fault without an exception under way was caught; and a lack of
\* embeddings was declared to one of the runs.
Phases   == {"setup", "call", "teardown"}
Outcomes == {"passed", "failed", "skipped", "error"}

RecordType == [test : Tests, outcome : Outcomes \cup {"pending"}, entries : [Entries -> Nat]]
TaskType   == [at : Nat, state : {"none", "runs", "ended"}]
ItemType   == [at : Phases \cup {"between"}, test : Tests \cup {""}, raising : Raises]
RunType    == [test : Tests, calls : Nat, entries : [Entries -> Nat],
               raised : Seq(Phases \X (Raises \ {"none"})),
               declared : BOOLEAN, caught : BOOLEAN, ended : BOOLEAN]

SessionTypeOK ==
    /\ records \in Seq(RecordType)
    /\ byNode \in [Tests -> Nat]
    /\ active \in Nat
    /\ copied \in Seq(TaskType)
    /\ item \in ItemType
    /\ embedding \in Embeddings
    /\ done \in Seq(RunType)

AtWork ==
    IF item.at = "between" THEN active = 0 /\ item.raising = "none"
    ELSE /\ Len(records) > 0 /\ item.test \in Tests
         /\ active = Len(records) /\ byNode[item.test] = Len(records)

Ended(r)      == r < Len(records) \/ item.at = "between"
OutcomeSet(r) == Ended(r) \/ item.at = "teardown"

RunKept(r) ==
    /\ records[r].test = done[r].test
    /\ records[r].entries = done[r].entries
    /\ done[r].ended = Ended(r)
    /\ OutcomeSet(r) => records[r].outcome = VerdictOf(done[r])
    /\ ~OutcomeSet(r) => records[r].outcome = "pending" /\ done[r].raised = <<>>
    /\ done[r].raised = <<>> /\ ~done[r].caught /\ (Ended(r) \/ item.raising = "none") =>
           \A e \in Faulty : done[r].entries[e] = 0
    /\ copied[r].state # "none" => copied[r].at = r

LackDeclared == \E r \in 1..Len(done) : done[r].declared

SessionInv ==
    /\ SessionTypeOK
    /\ Len(done) = Len(records) /\ Len(copied) = Len(records)
    /\ AtWork
    /\ \A r \in 1..Len(records) : RunKept(r)
    /\ embedding = "no" => LackDeclared
    /\ \A r \in 1..Len(records) : records[r].entries["uncovered"] > 0 => LackDeclared

------------------------------------------------------------------------------
\* What an action leaves of the runs.

LEMMA VerdictType ==
    ASSUME NEW run \in RunType
    PROVE  VerdictOf(run) \in Outcomes
<1>1. CASE run.raised = <<>>
  BY <1>1 DEF VerdictOf, Outcomes
<1>2. CASE run.raised # <<>>
  <2>1. run.raised \in Seq(Phases \X (Raises \ {"none"})) /\ Len(run.raised) > 0
    BY <1>2 DEF RunType
  <2> QED BY <1>2 DEF VerdictOf, OutcomeOf, Outcomes
<1> QED BY <1>1, <1>2

LEMMA FunctionIsSeq ==
    ASSUME NEW S, NEW l \in Nat, NEW m \in [1..l -> S]
    PROVE  m \in Seq(S) /\ Len(m) = l
OBVIOUS

AfterCall(run, entries, b) ==
    [run EXCEPT !.calls = @ + 1, !.entries = Plus(@, entries), !.declared = @ \/ b]
AfterPhase(run, ended, raised) == [run EXCEPT !.ended = ended, !.raised = raised]

LEMMA CalledRun ==
    ASSUME NEW run \in RunType, NEW entries \in Seq(Entries), NEW b \in BOOLEAN
    PROVE  LET n == AfterCall(run, entries, b) IN
           /\ n \in RunType
           /\ n.entries = Plus(run.entries, entries) /\ n.declared = (run.declared \/ b)
           /\ n.test = run.test /\ n.raised = run.raised
           /\ n.caught = run.caught /\ n.ended = run.ended
<1> DEFINE counted == [run EXCEPT !.calls = @ + 1]
           entered == [counted EXCEPT !.entries = Plus(@, entries)]
           declared == [entered EXCEPT !.declared = @ \/ b]
<1>1. counted \in RunType
  <2>1. run.calls + 1 \in Nat
    BY DEF RunType
  <2> QED BY <2>1, Zenon DEF RunType
<1>2. entered \in RunType
  <2>1. counted.entries \in [Entries -> Nat]
    BY <1>1 DEF RunType
  <2>2. PICK counts \in [Entries -> Nat] : counts = counted.entries
    BY <2>1
  <2>3. Plus(counted.entries, entries) \in [Entries -> Nat]
    BY <2>2, PlusCounts
  <2> QED BY <1>1, <2>3, Zenon DEF RunType
<1>3. (entered.declared \/ b) \in BOOLEAN
  OBVIOUS
<1>4. declared \in RunType
  BY <1>2, <1>3 DEF RunType
<1>5. /\ declared.entries = Plus(run.entries, entries) /\ declared.declared = (run.declared \/ b)
      /\ declared.test = run.test /\ declared.raised = run.raised
      /\ declared.caught = run.caught /\ declared.ended = run.ended
  BY DEF RunType
<1>6. AfterCall(run, entries, b) = declared
  BY DEF AfterCall
<1> HIDE DEF declared
<1> QED BY <1>4, <1>5, <1>6

LEMMA EndedRun ==
    ASSUME NEW run \in RunType, NEW ended \in BOOLEAN, NEW raised \in Seq(Phases \X (Raises \ {"none"}))
    PROVE  LET n == AfterPhase(run, ended, raised) IN
           /\ n \in RunType
           /\ n.ended = ended /\ n.raised = raised
           /\ n.entries = run.entries /\ n.declared = run.declared
           /\ n.test = run.test /\ n.caught = run.caught
<1> DEFINE first == [run EXCEPT !.ended = ended]
           second == [first EXCEPT !.raised = raised]
<1>1. first \in RunType
  BY DEF RunType
<1>2. second \in RunType
  BY <1>1 DEF RunType
<1>3. /\ second.ended = ended /\ second.raised = raised
      /\ second.entries = run.entries /\ second.declared = run.declared
      /\ second.test = run.test /\ second.caught = run.caught
  BY DEF RunType
<1>4. AfterPhase(run, ended, raised) = second
  BY DEF AfterPhase
<1> HIDE DEF second
<1> QED BY <1>2, <1>3, <1>4

------------------------------------------------------------------------------
\* The invariant holds at the start and is kept by every action.

LEMMA SessionStarts == SessionInit => SessionInv
<1> SUFFICES ASSUME SessionInit PROVE SessionInv
  OBVIOUS
<1>1. SessionTypeOK
  <2>1. records \in Seq(RecordType) /\ copied \in Seq(TaskType) /\ done \in Seq(RunType)
    <3>1. records = <<>> /\ copied = <<>> /\ done = <<>>
      BY DEF SessionInit
    <3>2. <<>> \in Seq(RecordType) /\ <<>> \in Seq(TaskType) /\ <<>> \in Seq(RunType)
      OBVIOUS
    <3> QED BY <3>1, <3>2
  <2>2. item \in ItemType
    BY DEF SessionInit, ItemType, Raises
  <2>3. byNode \in [Tests -> Nat] /\ active \in Nat /\ embedding \in Embeddings
    BY DEF SessionInit, Embeddings
  <2> QED BY <2>1, <2>2, <2>3 DEF SessionTypeOK
<1>2. AtWork
  BY DEF SessionInit, AtWork
<1>3. Len(records) = 0 /\ Len(done) = 0 /\ Len(copied) = 0 /\ embedding = ""
  BY DEF SessionInit
<1>4. embedding # "no"
  BY <1>3
<1>5. 1..Len(records) = {}
  <2>1. Len(records) = 0
    BY <1>3
  <2> QED BY <2>1
<1> QED BY <1>1, <1>2, <1>3, <1>4, <1>5 DEF SessionInv

LEMMA BeginKept ==
    ASSUME SessionInv, NEW t \in Tests, Begin(t)
    PROVE  SessionInv'
<1> DEFINE k == Len(records) + 1
           record == NewRecord(t)
           task == [at |-> 0, state |-> "none"]
           run == [test |-> t, calls |-> 0, entries |-> NoEntries, raised |-> <<>>,
                   declared |-> FALSE, caught |-> FALSE, ended |-> FALSE]
<1>1. record \in RecordType /\ record.test = t /\ record.entries = NoEntries /\ record.outcome = "pending"
  BY NoEntriesType DEF RecordType, NewRecord, Outcomes
<1>2. task \in TaskType /\ task.state = "none"
  BY DEF TaskType
<1>3. /\ run \in RunType /\ run.test = t /\ run.entries = NoEntries /\ run.raised = <<>>
      /\ run.ended = FALSE
  <2>1. <<>> \in Seq(Phases \X (Raises \ {"none"}))
    OBVIOUS
  <2> QED BY <2>1, NoEntriesType DEF RunType
<1>4. /\ records \in Seq(RecordType) /\ copied \in Seq(TaskType) /\ done \in Seq(RunType)
      /\ Len(done) = Len(records) /\ Len(copied) = Len(records)
      /\ item.at = "between" /\ byNode \in [Tests -> Nat]
  BY DEF SessionInv, SessionTypeOK, Begin
<1>5. /\ records' = Append(records, record) /\ copied' = Append(copied, task)
      /\ done' = Append(done, run)
      /\ item' = [at |-> "setup", test |-> t, raising |-> "none"]
      /\ active' = k /\ byNode' = [byNode EXCEPT ![t] = k] /\ embedding' = embedding
  BY DEF Begin
<1> HIDE DEF record, task, run
<1>6. /\ Len(records') = k /\ Len(done') = k /\ Len(copied') = k
      /\ records'[k] = record /\ done'[k] = run /\ copied'[k] = task
      /\ \A r \in 1..Len(records) :
             records'[r] = records[r] /\ done'[r] = done[r] /\ copied'[r] = copied[r]
  BY <1>4, <1>5
<1>7. SessionTypeOK'
  <2>1. records' \in Seq(RecordType) /\ copied' \in Seq(TaskType) /\ done' \in Seq(RunType)
    BY <1>1, <1>2, <1>3, <1>4, <1>5
  <2>2. item' \in ItemType
    BY <1>5 DEF ItemType, Phases, Raises
  <2>3. byNode' \in [Tests -> Nat] /\ active' \in Nat /\ embedding' \in Embeddings
    BY <1>4, <1>5 DEF SessionInv, SessionTypeOK
  <2> QED BY <2>1, <2>2, <2>3 DEF SessionTypeOK
<1>8. AtWork'
  BY <1>4, <1>5, <1>6 DEF AtWork
<1>9. \A r \in 1..Len(records) : RunKept(r)'
  <2> TAKE r \in 1..Len(records)
  <2>1. RunKept(r) /\ Ended(r) /\ OutcomeSet(r)
    BY <1>4 DEF SessionInv, Ended, OutcomeSet
  <2>2. Ended(r)' /\ OutcomeSet(r)'
    BY <1>6, <1>4 DEF Ended, OutcomeSet
  <2>3. records'[r] = records[r] /\ done'[r] = done[r] /\ copied'[r] = copied[r]
    BY <1>6
  <2> QED BY <2>1, <2>2, <2>3 DEF RunKept
<1>10. ASSUME NEW r, r = k PROVE RunKept(r)'
  <2>1. Ended(r)' = FALSE /\ ~OutcomeSet(r)'
    BY <1>5, <1>6, <1>4, <1>10 DEF Ended, OutcomeSet
  <2>2. \A e \in Faulty : NoEntries[e] = 0
    BY NoEntriesType DEF Faulty, Entries
  <2>3. /\ records'[r] = record /\ done'[r] = run /\ copied'[r] = task
    BY <1>6, <1>10
  <2>4. /\ records'[r].test = done'[r].test /\ records'[r].entries = done'[r].entries
        /\ done'[r].ended = FALSE /\ done'[r].raised = <<>> /\ records'[r].outcome = "pending"
        /\ \A e \in Faulty : done'[r].entries[e] = 0
        /\ copied'[r].state = "none"
    BY <1>1, <1>2, <1>3, <2>2, <2>3
  <2> QED BY <2>1, <2>4, Zenon DEF RunKept
<1>11. LackDeclared => LackDeclared'
  BY <1>4, <1>6 DEF LackDeclared
<1>12. NoEntries["uncovered"] = 0
  BY NoEntriesType DEF Entries
<1>13. \A r \in 1..k : r \in 1..Len(records) \/ r = k
  BY <1>4
<1>14. (embedding = "no" => LackDeclared)'
  BY <1>5, <1>11 DEF SessionInv
<1>15. (\A r \in 1..Len(records) : records[r].entries["uncovered"] > 0 => LackDeclared)'
  BY <1>1, <1>6, <1>11, <1>12, <1>13 DEF SessionInv
<1>16. (\A r \in 1..Len(records) : RunKept(r))'
  BY <1>6, <1>9, <1>10, <1>13
<1> QED BY <1>6, <1>7, <1>8, <1>14, <1>15, <1>16 DEF SessionInv

\* What an entry of a call adds to the record of its run.
LEMMA RecordKept ==
    ASSUME NEW list \in Seq(RecordType), NEW at \in 1..Len(list), NEW entries \in Seq(Entries)
    PROVE  LET n == Record(list, at, entries) IN
           /\ n \in Seq(RecordType) /\ Len(n) = Len(list)
           /\ \A r \in 1..Len(list) : r # at => n[r] = list[r]
           /\ n[at].entries = Plus(list[at].entries, entries)
           /\ n[at].test = list[at].test /\ n[at].outcome = list[at].outcome
<1> DEFINE n == [list EXCEPT ![at].entries = Plus(@, entries)]
<1>1. Record(list, at, entries) = n
  BY DEF Record
<1>2. list[at] \in RecordType /\ list \in [1..Len(list) -> RecordType]
  OBVIOUS
<1>3. Plus(list[at].entries, entries) \in [Entries -> Nat]
  <2>1. PICK counts \in [Entries -> Nat] : counts = list[at].entries
    BY <1>2 DEF RecordType
  <2> QED BY <2>1, PlusCounts
<1>4. n[at] = [list[at] EXCEPT !.entries = Plus(@, entries)]
  BY <1>2
<1>5. DOMAIN n = 1..Len(list) /\ \A r \in 1..Len(list) : r # at => n[r] = list[r]
  BY <1>2
<1>6. [list[at] EXCEPT !.entries = Plus(@, entries)] \in RecordType
  BY <1>2, <1>3 DEF RecordType
<1>7. /\ n[at].entries = Plus(list[at].entries, entries)
      /\ n[at].test = list[at].test /\ n[at].outcome = list[at].outcome
  BY <1>2, <1>4 DEF RecordType
<1>8. n \in [1..Len(list) -> RecordType]
  BY <1>2, <1>4, <1>5, <1>6
<1> HIDE DEF n
<1>9. n \in Seq(RecordType) /\ Len(n) = Len(list)
  BY <1>8
<1> QED BY <1>1, <1>5, <1>7, <1>9

LEMMA EvaluateKept ==
    ASSUME SessionInv, NEW result \in Evaluations, Evaluate(result)
    PROVE  SessionInv'
<1> DEFINE k == Len(records)
<1>1. /\ records \in Seq(RecordType) /\ copied \in Seq(TaskType) /\ done \in Seq(RunType)
      /\ Len(done) = k /\ Len(copied) = k /\ k \in 1..k
      /\ item \in ItemType /\ item.at \in {"setup", "call"} /\ item.raising = "none"
      /\ active = k /\ embedding \in Embeddings
  BY DEF SessionInv, SessionTypeOK, AtWork, Evaluate, MayCall
<1>2. /\ result.entries \in Seq(Entries) /\ result.raises \in Raises /\ result.declared \in BOOLEAN
      /\ result.embedding \in Embeddings
      /\ result.raises = "none" => \A i \in 1..Len(result.entries) : result.entries[i] \notin Faulty
      /\ result.embedding = "no" \/ (\E i \in 1..Len(result.entries) : result.entries[i] = "uncovered") =>
             embedding = "no" \/ result.declared
  BY <1>1, EvaluationsOK DEF ResultOK, Embeddings
<1>3. /\ records' = Record(records, k, result.entries)
      /\ done' = [done EXCEPT ![k].calls = @ + 1, ![k].entries = Plus(@, result.entries),
                              ![k].declared = @ \/ result.declared]
      /\ item' = [item EXCEPT !.raising = result.raises]
      /\ embedding' = result.embedding
      /\ byNode' = byNode /\ active' = active /\ copied' = copied
  BY <1>1 DEF Evaluate, CurrentRun
<1>4. /\ records' \in Seq(RecordType) /\ Len(records') = k
      /\ \A r \in 1..k : r # k => records'[r] = records[r]
      /\ records'[k].entries = Plus(records[k].entries, result.entries)
      /\ records'[k].test = records[k].test /\ records'[k].outcome = records[k].outcome
  <2>1. PICK entries \in Seq(Entries) : entries = result.entries
    BY <1>2
  <2>2. PICK list \in Seq(RecordType) : list = records
    BY <1>1
  <2>3. PICK at \in 1..Len(list) : at = k
    BY <1>1, <2>2
  <2> DEFINE n == Record(list, at, entries)
  <2>4. records' = n
    BY <1>3, <2>1, <2>2, <2>3
  <2>5. /\ n \in Seq(RecordType) /\ Len(n) = Len(list)
        /\ \A r \in 1..Len(list) : r # at => n[r] = list[r]
        /\ n[at].entries = Plus(list[at].entries, entries)
        /\ n[at].test = list[at].test /\ n[at].outcome = list[at].outcome
    BY RecordKept, Zenon
  <2> HIDE DEF k, n
  <2>6. Len(list) = k
    BY <2>2 DEF k
  <2> QED BY <2>1, <2>2, <2>3, <2>4, <2>5, <2>6
<1>5. /\ done' \in Seq(RunType) /\ Len(done') = k
      /\ \A r \in 1..k : r # k => done'[r] = done[r]
      /\ done'[k].entries = Plus(done[k].entries, result.entries)
      /\ done'[k].declared = (done[k].declared \/ result.declared)
      /\ done'[k].test = done[k].test /\ done'[k].raised = done[k].raised
      /\ done'[k].caught = done[k].caught /\ done'[k].ended = done[k].ended
  <2> DEFINE es == result.entries
             lacks == result.declared
             n == AfterCall(done[k], es, lacks)
  <2>1. done[k] \in RunType /\ done \in [1..k -> RunType]
    BY <1>1
  <2>2. /\ done'[k] = n /\ DOMAIN done' = 1..k
        /\ \A r \in 1..k : r # k => done'[r] = done[r]
    BY <1>1, <1>3, <2>1 DEF AfterCall
  <2>9. done' = [r \in 1..k |-> done'[r]]
    BY <1>3, <2>1
  <2>3. PICK run \in RunType, entries \in Seq(Entries), declared \in BOOLEAN :
            run = done[k] /\ entries = es /\ declared = lacks
    BY <1>2, <2>1
  <2> HIDE DEF es, lacks
  <2> DEFINE m == AfterCall(run, entries, declared)
  <2>4. n = m
    BY <2>3
  <2>8. /\ m \in RunType
        /\ m.entries = Plus(run.entries, entries) /\ m.declared = (run.declared \/ declared)
        /\ m.test = run.test /\ m.raised = run.raised
        /\ m.caught = run.caught /\ m.ended = run.ended
    BY CalledRun
  <2> HIDE DEF m, n
  <2>5. /\ n \in RunType
        /\ n.entries = Plus(done[k].entries, es) /\ n.declared = (done[k].declared \/ lacks)
        /\ n.test = done[k].test /\ n.raised = done[k].raised
        /\ n.caught = done[k].caught /\ n.ended = done[k].ended
    BY <2>3, <2>4, <2>8
  <2>6. done' \in [1..k -> RunType]
    BY <1>1, <2>1, <2>2, <2>5, <2>9
  <2>7. done' \in Seq(RunType) /\ Len(done') = k
    <3>1. k \in Nat
      BY <1>1
    <3> QED BY <3>1, <2>6, FunctionIsSeq, Zenon
  <2> QED BY <2>2, <2>5, <2>7 DEF es, lacks
<1>6. /\ item' \in ItemType /\ item'.at = item.at /\ item'.test = item.test
      /\ item'.raising = result.raises
  BY <1>1, <1>2, <1>3 DEF ItemType
<1> HIDE DEF k
<1>7. SessionTypeOK'
  BY <1>1, <1>2, <1>3, <1>4, <1>5, <1>6 DEF SessionInv, SessionTypeOK
<1>8. AtWork'
  BY <1>1, <1>3, <1>4, <1>6 DEF SessionInv, AtWork, k
<1>9. \A r : Ended(r)' = Ended(r) /\ OutcomeSet(r)' = OutcomeSet(r)
  BY <1>4, <1>6 DEF Ended, OutcomeSet, k
<1>10. ASSUME NEW r \in 1..k, r # k PROVE RunKept(r)'
  <2>1. RunKept(r) /\ Ended(r)
    BY <1>1, <1>10 DEF SessionInv, Ended, k
  <2>2. records'[r] = records[r] /\ done'[r] = done[r] /\ copied'[r] = copied[r]
    BY <1>3, <1>4, <1>5, <1>10
  <2> QED BY <1>9, <2>1, <2>2 DEF RunKept
<1>11. /\ done[k].entries \in [Entries -> Nat] /\ Faulty \subseteq Entries /\ "uncovered" \in Entries
       /\ \A e \in Entries : (\A i \in 1..Len(result.entries) : result.entries[i] # e) =>
                                 done'[k].entries[e] = done[k].entries[e]
  <2>0. done[k] \in RunType
    BY <1>1
  <2>1. done[k].entries \in [Entries -> Nat]
    BY <2>0 DEF RunType
  <2>2. PICK counts \in [Entries -> Nat], entries \in Seq(Entries) :
            counts = done[k].entries /\ entries = result.entries
    BY <1>2, <2>1
  <2>3. \A e \in Entries : (\A i \in 1..Len(entries) : entries[i] # e) => Plus(counts, entries)[e] = counts[e]
    BY PlusCounts, Zenon
  <2>4. done'[k].entries = Plus(counts, entries)
    BY <1>5, <2>2
  <2>5. Faulty \subseteq Entries /\ "uncovered" \in Entries
    BY DEF Faulty, Entries
  <2> QED BY <2>1, <2>2, <2>3, <2>4, <2>5
<1>12. ASSUME NEW r, r = k PROVE RunKept(r)'
  <2>1. RunKept(k) /\ Ended(k) = FALSE /\ ~OutcomeSet(k)
    BY <1>1 DEF SessionInv, Ended, OutcomeSet, k
  <2>2. Ended(r)' = FALSE /\ ~OutcomeSet(r)'
    BY <1>1, <1>4, <1>6, <1>12 DEF Ended, OutcomeSet
  <2>3. /\ records[k].test = done[k].test /\ records[k].entries = done[k].entries
        /\ done[k].ended = FALSE /\ records[k].outcome = "pending" /\ done[k].raised = <<>>
        /\ copied[k].state # "none" => copied[k].at = k
        /\ ~done[k].caught => \A e \in Faulty : done[k].entries[e] = 0
    BY <1>1, <2>1, Zenon DEF RunKept
  <2>4. /\ records'[r].test = done'[r].test /\ records'[r].entries = done'[r].entries
        /\ done'[r].ended = FALSE /\ records'[r].outcome = "pending" /\ done'[r].raised = <<>>
        /\ copied'[r].state # "none" => copied'[r].at = r
        /\ done'[r].caught = done[k].caught
    BY <1>3, <1>4, <1>5, <1>12, <2>3
  <2>5. ASSUME ~done'[r].caught, item'.raising = "none" PROVE \A e \in Faulty : done'[r].entries[e] = 0
    <3>1. \A e \in Faulty : done[k].entries[e] = 0
      BY <2>3, <2>4, <2>5
    <3>2. \A e \in Faulty : \A i \in 1..Len(result.entries) : result.entries[i] # e
      BY <1>2, <1>6, <2>5
    <3> QED BY <1>11, <1>12, <3>1, <3>2
  <2> QED BY <2>2, <2>4, <2>5, Zenon DEF RunKept
<1>13. LackDeclared \/ result.declared => LackDeclared'
  BY <1>1, <1>5 DEF LackDeclared
<1>14. (embedding = "no" => LackDeclared)'
  BY <1>2, <1>3, <1>13 DEF SessionInv
<1>15. (\A r \in 1..Len(records) : records[r].entries["uncovered"] > 0 => LackDeclared)'
  <2>1. SUFFICES ASSUME NEW r \in 1..k, records'[r].entries["uncovered"] > 0 PROVE LackDeclared'
    BY <1>4
  <2>2. CASE records'[r].entries["uncovered"] = records[r].entries["uncovered"]
    BY <1>1, <1>13, <2>1, <2>2 DEF SessionInv, k
  <2>3. CASE records'[r].entries["uncovered"] # records[r].entries["uncovered"]
    <3>1. r = k
      BY <1>1, <1>4, <2>3
    <3>2. records'[k].entries = done'[k].entries /\ records[k].entries = done[k].entries
      <4>1. RunKept(k)
        BY <1>1 DEF SessionInv, k
      <4> QED BY <1>4, <1>5, <4>1 DEF RunKept
    <3>4. done'[k].entries["uncovered"] # done[k].entries["uncovered"]
      BY <2>3, <3>1, <3>2
    <3>3. \E i \in 1..Len(result.entries) : result.entries[i] = "uncovered"
      BY <1>11, <3>4
    <3> QED BY <1>2, <1>13, <3>3 DEF SessionInv
  <2> QED BY <2>2, <2>3
<1>16. (\A r \in 1..Len(records) : RunKept(r))'
  <2> SUFFICES ASSUME NEW r \in 1..k PROVE RunKept(r)'
    BY <1>4
  <2> QED BY <1>10, <1>12
<1> QED BY <1>1, <1>3, <1>4, <1>5, <1>7, <1>8, <1>14, <1>15, <1>16 DEF SessionInv

\* What the task and the code outside of the tests add speaks against no test.
LEMMA AskedFaultless ==
    ASSUME embedding \in Embeddings
    PROVE  /\ AskApplication("good").entries \in Seq(Entries)
           /\ \A i \in 1..Len(AskApplication("good").entries) :
                  AskApplication("good").entries[i] \notin Faulty
<1>1. ResultOK(AskApplication("good"))
  BY TimedOK DEF AskApplication
<1>2. AskApplication("good").raises = "none"
  BY DEF AskApplication, Timed, Does, Errors
<1> QED BY <1>1, <1>2 DEF ResultOK

LEMMA TaskKept ==
    ASSUME SessionInv, NEW j \in DOMAIN copied, TaskCompletes(j)
    PROVE  SessionInv'
<1> DEFINE k == Len(records)
           asked == AskApplication("good").entries
<1>1. /\ records \in Seq(RecordType) /\ copied \in Seq(TaskType) /\ done \in Seq(RunType)
      /\ Len(done) = k /\ Len(copied) = k /\ k \in Nat /\ j \in 1..k
      /\ embedding \in Embeddings /\ copied[j].state = "runs"
  BY DEF SessionInv, SessionTypeOK, TaskCompletes
<1>2. asked \in Seq(Entries) /\ \A i \in 1..Len(asked) : asked[i] \notin Faulty
  BY <1>1, AskedFaultless
<1>3. RunKept(j) /\ copied[j].at = j
  BY <1>1 DEF SessionInv, RunKept
<1>4. /\ records' = Record(records, j, asked)
      /\ done' = [done EXCEPT ![j].entries = Plus(@, asked)]
      /\ copied' = [copied EXCEPT ![j].state = "ended"]
      /\ byNode' = byNode /\ active' = active /\ item' = item /\ embedding' = embedding
  BY <1>3 DEF TaskCompletes
<1> HIDE DEF asked
<1>5. /\ records' \in Seq(RecordType) /\ Len(records') = k
      /\ \A r \in 1..k : r # j => records'[r] = records[r]
      /\ records'[j].entries = Plus(records[j].entries, asked)
      /\ records'[j].test = records[j].test /\ records'[j].outcome = records[j].outcome
  <2>1. PICK entries \in Seq(Entries) : entries = asked
    BY <1>2
  <2> QED BY <1>1, <1>4, <2>1, RecordKept
<1>6. done[j] \in RunType /\ copied[j] \in TaskType /\ done[j].entries \in [Entries -> Nat]
  <2>1. done[j] \in RunType /\ copied[j] \in TaskType
    BY <1>1
  <2> QED BY <2>1 DEF RunType
<1>7. /\ Plus(done[j].entries, asked) \in [Entries -> Nat]
      /\ \A e \in Faulty : Plus(done[j].entries, asked)[e] = done[j].entries[e]
  <2>1. PICK counts \in [Entries -> Nat], entries \in Seq(Entries) :
            counts = done[j].entries /\ entries = asked
    BY <1>2, <1>6
  <2>2. Faulty \subseteq Entries
    BY DEF Faulty, Entries
  <2>3. /\ Plus(counts, entries) \in [Entries -> Nat]
        /\ \A e \in Entries : (\A i \in 1..Len(entries) : entries[i] # e) =>
                                  Plus(counts, entries)[e] = counts[e]
    BY PlusCounts, Zenon
  <2>4. \A e \in Faulty : \A i \in 1..Len(entries) : entries[i] # e
    BY <1>2, <2>1
  <2> QED BY <2>1, <2>2, <2>3, <2>4
<1>8. /\ done' \in Seq(RunType) /\ Len(done') = k
      /\ \A r \in 1..k : r # j => done'[r] = done[r]
      /\ done'[j].entries = Plus(done[j].entries, asked)
      /\ done'[j].declared = done[j].declared
      /\ done'[j].test = done[j].test /\ done'[j].raised = done[j].raised
      /\ done'[j].caught = done[j].caught /\ done'[j].ended = done[j].ended
  <2>1. [done[j] EXCEPT !.entries = Plus(@, asked)] \in RunType
    BY <1>6, <1>7 DEF RunType
  <2>0. done \in [1..k -> RunType]
    BY <1>1
  <2>2. done' \in [1..k -> RunType] /\ done'[j] = [done[j] EXCEPT !.entries = Plus(@, asked)]
    BY <1>1, <1>4, <2>0, <2>1
  <2>3. \A r \in 1..k : r # j => done'[r] = done[r]
    BY <1>1, <1>4
  <2>4. done' \in Seq(RunType) /\ Len(done') = k
    <3>1. k \in Nat
      BY <1>1
    <3> QED BY <3>1, <2>2, FunctionIsSeq, Zenon
  <2> QED BY <1>6, <2>2, <2>3, <2>4 DEF RunType
<1>9. /\ copied' \in Seq(TaskType) /\ Len(copied') = k
      /\ \A r \in 1..k : r # j => copied'[r] = copied[r]
      /\ copied'[j].at = j
  <2>1. [copied[j] EXCEPT !.state = "ended"] \in TaskType
    BY <1>6 DEF TaskType
  <2>2. copied' \in [1..k -> TaskType] /\ copied'[j] = [copied[j] EXCEPT !.state = "ended"]
    BY <1>1, <1>4, <2>1
  <2>3. copied' \in Seq(TaskType) /\ Len(copied') = k
    <3>1. k \in Nat
      BY <1>1
    <3> QED BY <3>1, <2>2, FunctionIsSeq, Zenon
  <2> QED BY <1>1, <1>3, <1>4, <1>6, <2>2, <2>3 DEF TaskType
<1>10. SessionTypeOK'
  BY <1>4, <1>5, <1>8, <1>9 DEF SessionInv, SessionTypeOK
<1>11. AtWork'
  BY <1>4, <1>5 DEF SessionInv, AtWork
<1>12. \A r : Ended(r)' = Ended(r) /\ OutcomeSet(r)' = OutcomeSet(r)
  BY <1>4, <1>5 DEF Ended, OutcomeSet
<1>13. ASSUME NEW r \in 1..k PROVE RunKept(r)'
  <2>1. CASE r # j
    <3>1. RunKept(r)
      BY <1>1 DEF SessionInv
    <3>2. records'[r] = records[r] /\ done'[r] = done[r] /\ copied'[r] = copied[r]
      BY <1>5, <1>8, <1>9, <2>1
    <3> QED BY <1>4, <1>12, <3>1, <3>2 DEF RunKept
  <2>2. CASE r = j
    <3>1. /\ records[r].test = done[r].test /\ records[r].entries = done[r].entries
          /\ done[r].ended = Ended(r)
          /\ OutcomeSet(r) => records[r].outcome = VerdictOf(done[r])
          /\ ~OutcomeSet(r) => records[r].outcome = "pending" /\ done[r].raised = <<>>
          /\ done[r].raised = <<>> /\ ~done[r].caught /\ (Ended(r) \/ item.raising = "none") =>
                 \A e \in Faulty : done[r].entries[e] = 0
      BY <1>3, <2>2, Zenon DEF RunKept
    <3>2. VerdictOf(done'[r]) = VerdictOf(done[r])
      BY <1>8, <2>2 DEF VerdictOf
    <3>3. \A e \in Faulty : done'[r].entries[e] = done[r].entries[e]
      BY <1>7, <1>8, <2>2
    <3>4. /\ records'[r].test = done'[r].test /\ records'[r].entries = done'[r].entries
          /\ done'[r].ended = done[r].ended /\ done'[r].raised = done[r].raised
          /\ done'[r].caught = done[r].caught
          /\ records'[r].outcome = records[r].outcome /\ copied'[r].at = r
      BY <1>5, <1>8, <1>9, <2>2, <3>1
    <3>5. done'[r].raised = <<>> /\ ~done'[r].caught /\ (Ended(r)' \/ item'.raising = "none") =>
              \A e \in Faulty : done'[r].entries[e] = 0
      BY <1>4, <1>12, <3>1, <3>3, <3>4
    <3>6. done'[r].ended = Ended(r)'
      BY <1>12, <3>1, <3>4, Zenon
    <3>7. OutcomeSet(r)' => records'[r].outcome = VerdictOf(done[r])'
      BY <1>12, <3>1, <3>2, <3>4
    <3>8. ~OutcomeSet(r)' => records'[r].outcome = "pending" /\ done'[r].raised = <<>>
      BY <1>12, <3>1, <3>4
    <3> QED BY <3>4, <3>5, <3>6, <3>7, <3>8, Zenon DEF RunKept
  <2> QED BY <2>1, <2>2
<1>14. LackDeclared => LackDeclared'
  BY <1>1, <1>8 DEF LackDeclared
<1>15. (embedding = "no" => LackDeclared)'
  BY <1>4, <1>14 DEF SessionInv
<1>16. (\A r \in 1..Len(records) : records[r].entries["uncovered"] > 0 => LackDeclared)'
  <2> SUFFICES ASSUME NEW r \in 1..k, records'[r].entries["uncovered"] > 0 PROVE LackDeclared'
    BY <1>5
  <2>1. records'[r].entries["uncovered"] = records[r].entries["uncovered"]
    <3>1. CASE r # j
      BY <1>5, <3>1
    <3>2. CASE r = j
      BY <1>3, <1>5, <1>7, <3>2 DEF RunKept, Faulty
    <3> QED BY <3>1, <3>2
  <2> QED BY <1>1, <1>14, <2>1 DEF SessionInv
<1>17. (\A r \in 1..Len(records) : RunKept(r))'
  BY <1>5, <1>13
<1> QED BY <1>5, <1>8, <1>9, <1>10, <1>11, <1>15, <1>16, <1>17 DEF SessionInv

\* Between tests no record is active, so what is outside of them is nowhere.
LEMMA OutsideKept ==
    ASSUME SessionInv, Outside
    PROVE  SessionInv'
<1>1. active = 0
  BY DEF Outside, SessionInv, AtWork
<1>2. records' = records
  BY <1>1 DEF Outside, Record
<1>3. UNCHANGED <<byNode, active, copied, item, embedding, policy, done>>
  BY DEF Outside
<1> QED BY <1>2, <1>3 DEF SessionInv, SessionTypeOK, AtWork, RunKept, Ended, OutcomeSet, LackDeclared, VerdictOf

LEMMA StutterKept ==
    ASSUME SessionInv, UNCHANGED sessionVars
    PROVE  SessionInv'
BY DEF sessionVars, SessionInv, SessionTypeOK, AtWork, RunKept, Ended, OutcomeSet, LackDeclared, VerdictOf

LEMMA CatchKept ==
    ASSUME SessionInv, Catch
    PROVE  SessionInv'
<1> DEFINE k == Len(records)
<1>1. /\ records \in Seq(RecordType) /\ copied \in Seq(TaskType) /\ done \in Seq(RunType)
      /\ Len(done) = k /\ Len(copied) = k /\ k \in 1..k /\ item \in ItemType
  BY DEF SessionInv, SessionTypeOK, AtWork, Catch
<1>2. /\ item' = [item EXCEPT !.raising = "none"]
      /\ done' = [done EXCEPT ![k].caught = TRUE]
      /\ records' = records /\ byNode' = byNode /\ active' = active /\ copied' = copied
      /\ embedding' = embedding
  BY DEF Catch, CurrentRun
<1> HIDE DEF k
<1>3. item' \in ItemType /\ item'.at = item.at /\ item'.test = item.test
  BY <1>1, <1>2 DEF ItemType, Raises
<1>4. /\ done' \in Seq(RunType) /\ Len(done') = k
      /\ \A r \in 1..k : r # k => done'[r] = done[r]
      /\ \A r \in 1..k : /\ done'[r].entries = done[r].entries /\ done'[r].declared = done[r].declared
                         /\ done'[r].test = done[r].test /\ done'[r].raised = done[r].raised
                         /\ done'[r].ended = done[r].ended
      /\ done'[k].caught
  <2>1. done[k] \in RunType
    BY <1>1
  <2>2. [done[k] EXCEPT !.caught = TRUE] \in RunType
    BY <2>1 DEF RunType
  <2>3. done' \in [1..k -> RunType] /\ done'[k] = [done[k] EXCEPT !.caught = TRUE]
    BY <1>1, <1>2, <2>2
  <2>4. \A r \in 1..k : r # k => done'[r] = done[r]
    BY <1>1, <1>2
  <2>5. done' \in Seq(RunType) /\ Len(done') = k
    <3>1. k \in Nat
      BY <1>1
    <3> QED BY <3>1, <2>3, FunctionIsSeq, Zenon
  <2>6. /\ done'[k].entries = done[k].entries /\ done'[k].declared = done[k].declared
        /\ done'[k].test = done[k].test /\ done'[k].raised = done[k].raised
        /\ done'[k].ended = done[k].ended /\ done'[k].caught
    BY <2>1, <2>3 DEF RunType
  <2> QED BY <2>4, <2>5, <2>6
<1>5. SessionTypeOK'
  BY <1>2, <1>3, <1>4 DEF SessionInv, SessionTypeOK
<1>6. AtWork'
  BY <1>2, <1>3 DEF SessionInv, AtWork, Catch
<1>7. \A r : Ended(r)' = Ended(r) /\ OutcomeSet(r)' = OutcomeSet(r)
  BY <1>2, <1>3 DEF Ended, OutcomeSet
<1>8. ASSUME NEW r \in 1..k PROVE RunKept(r)'
  <2>1. /\ records[r].test = done[r].test /\ records[r].entries = done[r].entries
        /\ done[r].ended = Ended(r)
        /\ OutcomeSet(r) => records[r].outcome = VerdictOf(done[r])
        /\ ~OutcomeSet(r) => records[r].outcome = "pending" /\ done[r].raised = <<>>
        /\ done[r].raised = <<>> /\ ~done[r].caught /\ (Ended(r) \/ item.raising = "none") =>
               \A e \in Faulty : done[r].entries[e] = 0
        /\ copied[r].state # "none" => copied[r].at = r
    <3>1. RunKept(r)
      BY <1>1 DEF SessionInv, k
    <3> QED BY <3>1, Zenon DEF RunKept
  <2>2. VerdictOf(done'[r]) = VerdictOf(done[r])
    BY <1>4 DEF VerdictOf
  <2>3. /\ records'[r].test = done'[r].test /\ records'[r].entries = done'[r].entries
        /\ done'[r].raised = done[r].raised
        /\ records'[r].outcome = records[r].outcome /\ copied'[r] = copied[r]
    BY <1>2, <1>4, <2>1
  <2>4. done'[r].ended = Ended(r)'
    BY <1>4, <1>7, <2>1, Zenon
  <2>5. done'[r].raised = <<>> /\ ~done'[r].caught /\ (Ended(r)' \/ item'.raising = "none") =>
            \A e \in Faulty : done'[r].entries[e] = 0
    <3>1. CASE r = k
      BY <1>4, <3>1
    <3>2. CASE r # k
      <4>1. Ended(r)
        BY <1>1, <3>2 DEF Ended, k
      <4> QED BY <1>4, <2>1, <3>2, <4>1
    <3> QED BY <3>1, <3>2
  <2>6. OutcomeSet(r)' => records'[r].outcome = VerdictOf(done[r])'
    BY <1>7, <2>1, <2>2, <2>3
  <2>7. ~OutcomeSet(r)' => records'[r].outcome = "pending" /\ done'[r].raised = <<>>
    BY <1>7, <2>1, <2>3
  <2> QED BY <2>1, <2>3, <2>4, <2>5, <2>6, <2>7, Zenon DEF RunKept
<1>9. LackDeclared => LackDeclared'
  BY <1>1, <1>4 DEF LackDeclared
<1> QED BY <1>1, <1>2, <1>4, <1>5, <1>6, <1>8, <1>9 DEF SessionInv, k

LEMMA StartTaskKept ==
    ASSUME SessionInv, StartTask
    PROVE  SessionInv'
<1> DEFINE k == Len(records)
           task == [at |-> active, state |-> "runs"]
<1>1. /\ records \in Seq(RecordType) /\ copied \in Seq(TaskType) /\ done \in Seq(RunType)
      /\ Len(done) = k /\ Len(copied) = k /\ k \in 1..k /\ active = k
  BY DEF SessionInv, SessionTypeOK, AtWork, StartTask
<1>2. /\ copied' = [copied EXCEPT ![k] = task]
      /\ records' = records /\ byNode' = byNode /\ active' = active /\ item' = item
      /\ embedding' = embedding /\ done' = done
  BY DEF StartTask, CurrentRun
<1>3. task \in TaskType /\ task.at = k
  BY <1>1 DEF TaskType
<1> HIDE DEF k, task
<1>4. /\ copied' \in Seq(TaskType) /\ Len(copied') = k
      /\ \A r \in 1..k : r # k => copied'[r] = copied[r]
      /\ copied'[k].at = k
  BY <1>1, <1>2, <1>3
<1>5. SessionTypeOK' /\ AtWork'
  BY <1>2, <1>4 DEF SessionInv, SessionTypeOK, AtWork
<1>6. ASSUME NEW r \in 1..k PROVE RunKept(r)'
  <2>1. RunKept(r)
    BY <1>1 DEF SessionInv, k
  <2>2. copied'[r].state # "none" => copied'[r].at = r
    BY <1>4, <2>1 DEF RunKept
  <2>3. Ended(r)' = Ended(r) /\ OutcomeSet(r)' = OutcomeSet(r)
    BY <1>2 DEF Ended, OutcomeSet
  <2> QED BY <1>2, <2>1, <2>2, <2>3 DEF RunKept, VerdictOf
<1>7. LackDeclared' = LackDeclared
  BY <1>2 DEF LackDeclared
<1> QED BY <1>1, <1>2, <1>4, <1>5, <1>6, <1>7 DEF SessionInv, k

LEMMA EndPhaseKept ==
    ASSUME SessionInv, NEW raised \in Raises, EndPhase(raised)
    PROVE  SessionInv'
<1> DEFINE k == Len(records)
           last == item.at = "teardown"
           now == IF raised = "none" THEN done[k].raised ELSE Append(done[k].raised, <<item.at, raised>>)
<1>1. /\ records \in Seq(RecordType) /\ copied \in Seq(TaskType) /\ done \in Seq(RunType)
      /\ Len(done) = k /\ Len(copied) = k /\ k \in 1..k /\ item \in ItemType
      /\ item.at \in Phases /\ byNode[item.test] = k /\ active = k
      /\ item.raising \in {"none", raised}
  <2>1. item.at \in Phases /\ item.at # "between" /\ item.raising \in {"none", raised}
    BY DEF EndPhase, Phases
  <2> QED BY <2>1 DEF SessionInv, SessionTypeOK, AtWork
<1>2. /\ records' = [records EXCEPT ![k].outcome = MadeReport(@, item.at, raised)]
      /\ active' = ActiveAfter(item.at)
      /\ item' = [item EXCEPT !.raising = "none",
                              !.at = CASE item.at = "teardown" -> "between"
                                       [] item.at = "setup" /\ raised = "none" -> "call"
                                       [] OTHER -> "teardown"]
      /\ byNode' = byNode /\ copied' = copied /\ embedding' = embedding
  BY <1>1 DEF EndPhase
<1>3. done' = [done EXCEPT ![k].ended = last, ![k].raised = now]
  BY <1>1, Zenon DEF EndPhase, CurrentRun
<1>4. last \in BOOLEAN /\ now \in Seq(Phases \X (Raises \ {"none"}))
  <2>1. done[k] \in RunType
    BY <1>1
  <2>2. done[k].raised \in Seq(Phases \X (Raises \ {"none"}))
    BY <2>1 DEF RunType
  <2>3. raised # "none" => <<item.at, raised>> \in Phases \X (Raises \ {"none"})
    BY <1>1
  <2> QED BY <2>2, <2>3
<1> HIDE DEF now
<1>5. /\ done' \in Seq(RunType) /\ Len(done') = k
      /\ \A r \in 1..k : r # k => done'[r] = done[r]
      /\ \A r \in 1..k : /\ done'[r].entries = done[r].entries /\ done'[r].declared = done[r].declared
                         /\ done'[r].test = done[r].test /\ done'[r].caught = done[r].caught
      /\ done'[k].ended = last /\ done'[k].raised = now
  <2> DEFINE n == AfterPhase(done[k], last, now)
  <2> HIDE DEF last
  <2>1. done[k] \in RunType /\ done \in [1..k -> RunType]
    BY <1>1
  <2>2. /\ done'[k] = n /\ DOMAIN done' = 1..k
        /\ \A r \in 1..k : r # k => done'[r] = done[r]
    BY <1>1, <1>3, <2>1 DEF AfterPhase
  <2>3. done' = [r \in 1..k |-> done'[r]]
    BY <1>3, <2>1
  <2>4. PICK run \in RunType, ended \in BOOLEAN, latest \in Seq(Phases \X (Raises \ {"none"})) :
            run = done[k] /\ ended = last /\ latest = now
    BY <1>4, <2>1
  <2> DEFINE m == AfterPhase(run, ended, latest)
  <2>5. n = m
    BY <2>4
  <2>6. /\ m \in RunType
        /\ m.ended = ended /\ m.raised = latest
        /\ m.entries = run.entries /\ m.declared = run.declared
        /\ m.test = run.test /\ m.caught = run.caught
    BY EndedRun
  <2> HIDE DEF m, n
  <2>7. /\ n \in RunType
        /\ n.ended = last /\ n.raised = now
        /\ n.entries = done[k].entries /\ n.declared = done[k].declared
        /\ n.test = done[k].test /\ n.caught = done[k].caught
    BY <2>4, <2>5, <2>6
  <2>8. done' \in [1..k -> RunType]
    BY <1>1, <2>1, <2>2, <2>3, <2>7
  <2>9. done' \in Seq(RunType) /\ Len(done') = k
    <3>1. k \in Nat
      BY <1>1
    <3> QED BY <3>1, <2>8, FunctionIsSeq, Zenon
  <2> QED BY <2>2, <2>7, <2>9
<1> HIDE DEF k
<1>6. RunKept(k) /\ Ended(k) = FALSE
  BY <1>1 DEF SessionInv, Ended, k, Phases
<1>7. /\ item' \in ItemType /\ item'.test = item.test /\ item'.raising = "none"
      /\ last => item'.at = "between"
      /\ item.at = "setup" /\ raised = "none" => item'.at = "call"
      /\ ~last /\ ~(item.at = "setup" /\ raised = "none") => item'.at = "teardown"
  BY <1>1, <1>2 DEF ItemType, Phases, Raises
<1>8. records[k].outcome \in Outcomes \cup {"pending"} /\ records[k] \in RecordType
  <2>1. records[k] \in RecordType
    BY <1>1 DEF k
  <2> QED BY <2>1 DEF RecordType
<1>9. MadeReport(records[k].outcome, item.at, raised) \in Outcomes \cup {"pending"}
  BY <1>8 DEF MadeReport, OutcomeOf, Outcomes
<1>10. /\ records' \in Seq(RecordType) /\ Len(records') = k
       /\ \A r \in 1..k : r # k => records'[r] = records[r]
       /\ \A r \in 1..k : records'[r].test = records[r].test /\ records'[r].entries = records[r].entries
       /\ records'[k].outcome = MadeReport(records[k].outcome, item.at, raised)
  <2> DEFINE outcome == MadeReport(records[k].outcome, item.at, raised)
             n == [records[k] EXCEPT !.outcome = outcome]
  <2>1. records \in [1..k -> RecordType]
    BY <1>1 DEF k
  <2>2. records' = [records EXCEPT ![k].outcome = outcome]
    BY <1>2, Zenon
  <2> HIDE DEF outcome
  <2>3. n \in RecordType /\ n.outcome = outcome /\ n.test = records[k].test /\ n.entries = records[k].entries
    BY <1>8, <1>9 DEF RecordType, outcome
  <2>4. /\ records' \in [1..k -> RecordType] /\ records'[k] = n
        /\ \A r \in 1..k : r # k => records'[r] = records[r]
    BY <1>1, <2>1, <2>2, <2>3
  <2>5. records' \in Seq(RecordType) /\ Len(records') = k
    <3>1. k \in Nat
      BY <1>1
    <3> QED BY <2>4, <3>1
  <2> QED BY <2>3, <2>4, <2>5 DEF outcome
<1>11. active' = IF last THEN 0 ELSE k
  BY <1>1, <1>2 DEF ActiveAfter
<1>12. SessionTypeOK'
  BY <1>1, <1>2, <1>5, <1>7, <1>10, <1>11 DEF SessionInv, SessionTypeOK
<1>13. AtWork'
  <2>1. CASE last
    BY <1>7, <1>11, <2>1 DEF AtWork
  <2>2. CASE ~last
    <3>1. item.test \in Tests
      BY <1>1 DEF SessionInv, AtWork, Phases
    <3> QED BY <1>1, <1>2, <1>7, <1>10, <1>11, <2>2, <3>1 DEF AtWork
  <2> QED BY <2>1, <2>2
<1>14. ASSUME NEW r \in 1..k, r # k PROVE RunKept(r)'
  <2>1. RunKept(r) /\ Ended(r) = TRUE /\ OutcomeSet(r)
    BY <1>1, <1>14 DEF SessionInv, Ended, OutcomeSet, k
  <2>2. Ended(r)' = TRUE /\ OutcomeSet(r)'
    BY <1>1, <1>10, <1>14 DEF Ended, OutcomeSet
  <2>3. records'[r] = records[r] /\ done'[r] = done[r] /\ copied'[r] = copied[r]
    BY <1>2, <1>5, <1>10, <1>14
  <2> QED BY <2>1, <2>2, <2>3, Zenon DEF RunKept, VerdictOf
<1>15. ASSUME NEW r, r = k PROVE RunKept(r)'
  <2>1. /\ records[k].test = done[k].test /\ records[k].entries = done[k].entries
        /\ OutcomeSet(k) => records[k].outcome = VerdictOf(done[k])
        /\ ~OutcomeSet(k) => records[k].outcome = "pending" /\ done[k].raised = <<>>
        /\ done[k].raised = <<>> /\ ~done[k].caught /\ item.raising = "none" =>
               \A e \in Faulty : done[k].entries[e] = 0
        /\ copied[k].state # "none" => copied[k].at = k
    BY <1>6, Zenon DEF RunKept
  <2>2. OutcomeSet(k) <=> item.at = "teardown"
    BY <1>6 DEF OutcomeSet
  <2>3. Ended(r)' = last
    BY <1>1, <1>7, <1>10, <1>15 DEF Ended, k
  <2>4. OutcomeSet(r)' <=> ~(item.at = "setup" /\ raised = "none")
    BY <1>7, <2>3 DEF OutcomeSet
  <2>5. /\ records'[r].test = done'[r].test /\ records'[r].entries = done'[r].entries
        /\ done'[r].ended = Ended(r)'
        /\ copied'[r].state # "none" => copied'[r].at = r
    BY <1>1, <1>2, <1>5, <1>10, <1>15, <2>1, <2>3
  <2>6. ASSUME raised = "none"
        PROVE  /\ done'[r].raised = done[k].raised /\ item.raising = "none"
               /\ records'[r].outcome = IF item.at = "call" THEN "passed" ELSE records[k].outcome
    <3>1. done'[r].raised = done[k].raised /\ item.raising = "none"
      BY <1>1, <1>5, <1>15, <2>6 DEF now
    <3>2. item.at = "teardown" => records[k].outcome # "pending"
      <4>1. done[k] \in RunType
        BY <1>1
      <4>2. PICK run \in RunType : run = done[k]
        BY <4>1
      <4>3. VerdictOf(done[k]) # "pending"
        BY <4>2, VerdictType DEF Outcomes
      <4> QED BY <2>1, <2>2, <4>3
    <3> QED BY <1>10, <1>15, <2>6, <3>1, <3>2 DEF MadeReport
  <2>7. ASSUME raised # "none"
        PROVE  /\ done'[r].raised # <<>> /\ records'[r].outcome = VerdictOf(done'[r])
    <3>1. done'[r].raised = Append(done[k].raised, <<item.at, raised>>)
      BY <1>5, <1>15, <2>7 DEF now
    <3>2. done[k].raised \in Seq(Phases \X (Raises \ {"none"}))
      <4>1. done[k] \in RunType
        BY <1>1
      <4> QED BY <4>1 DEF RunType
    <3> DEFINE all == Append(done[k].raised, <<item.at, raised>>)
    <3>3. all # <<>> /\ all[Len(all)] = <<item.at, raised>>
      BY <3>2
    <3> HIDE DEF all
    <3>4. VerdictOf(done'[r]) = OutcomeOf(item.at, raised)
      BY <3>1, <3>3 DEF VerdictOf, all
    <3>5. records'[r].outcome = OutcomeOf(item.at, raised)
      BY <1>10, <1>15, <2>7 DEF MadeReport
    <3> QED BY <3>1, <3>3, <3>4, <3>5 DEF all
  <2>8. OutcomeSet(r)' => records'[r].outcome = VerdictOf(done'[r])
    <3>1. CASE raised # "none"
      BY <2>7, <3>1
    <3>2. CASE raised = "none" /\ item.at = "call"
      <4>1. done'[r].raised = <<>>
        BY <2>1, <2>2, <2>6, <3>2
      <4> QED BY <2>6, <3>2, <4>1 DEF VerdictOf
    <3>3. CASE raised = "none" /\ item.at = "teardown"
      <4>1. VerdictOf(done'[r]) = VerdictOf(done[k])
        BY <2>6, <3>3 DEF VerdictOf
      <4> QED BY <2>1, <2>2, <2>6, <3>3, <4>1
    <3> QED BY <1>1, <2>4, <3>1, <3>2, <3>3 DEF Phases
  <2>9. ~OutcomeSet(r)' => records'[r].outcome = "pending" /\ done'[r].raised = <<>>
    BY <2>1, <2>2, <2>4, <2>6
  <2>10. done'[r].raised = <<>> /\ ~done'[r].caught => \A e \in Faulty : done'[r].entries[e] = 0
    BY <1>5, <1>1, <1>15, <2>1, <2>6, <2>7
  <2> QED BY <2>5, <2>8, <2>9, <2>10, Zenon DEF RunKept
<1>16. LackDeclared => LackDeclared'
  BY <1>1, <1>5 DEF LackDeclared
<1>17. (\A r \in 1..Len(records) : RunKept(r))'
  <2> SUFFICES ASSUME NEW r \in 1..k PROVE RunKept(r)'
    BY <1>10
  <2> QED BY <1>14, <1>15
<1>18. (embedding = "no" => LackDeclared)'
  BY <1>2, <1>16 DEF SessionInv
<1>19. (\A r \in 1..Len(records) : records[r].entries["uncovered"] > 0 => LackDeclared)'
  BY <1>10, <1>16 DEF SessionInv, k
<1> QED BY <1>1, <1>2, <1>5, <1>10, <1>12, <1>13, <1>17, <1>18, <1>19 DEF SessionInv

\* A session keeps the invariant.
LEMMA SessionStepKept == SessionInv /\ [SessionNext]_sessionVars => SessionInv'
<1> SUFFICES ASSUME SessionInv, [SessionNext]_sessionVars PROVE SessionInv'
  OBVIOUS
<1>1. CASE \E t \in Tests : Begin(t)
  BY <1>1, BeginKept
<1>2. CASE \E raised \in Raises : EndPhase(raised)
  BY <1>2, EndPhaseKept
<1>3. CASE \E result \in Evaluations : Evaluate(result)
  BY <1>3, EvaluateKept
<1>4. CASE Catch
  BY <1>4, CatchKept
<1>5. CASE StartTask
  BY <1>5, StartTaskKept
<1>6. CASE Outside
  BY <1>6, OutsideKept
<1>7. CASE \E r \in DOMAIN copied : TaskCompletes(r)
  BY <1>7, TaskKept
<1>8. CASE UNCHANGED sessionVars
  BY <1>8, StutterKept
<1> QED BY <1>1, <1>2, <1>3, <1>4, <1>5, <1>6, <1>7, <1>8 DEF SessionNext, Raises

\* The records are counted once each: by the five outcomes, and at most the last
\* one is pending.
LEMMA OutcomesAddUp ==
    ASSUME SessionInv
    PROVE  /\ Len(records) = CountOf("passed") + CountOf("failed") + CountOf("skipped")
                                + CountOf("error") + CountOf("pending")
           /\ CountOf("pending") <= (IF item.at = "between" THEN 0 ELSE 1)
<1> DEFINE k == Len(records)
           Of(outcome) == {i \in 1..k : records[i].outcome = outcome}
<1>1. records \in Seq(RecordType) /\ k \in Nat /\ DOMAIN records = 1..k
  BY DEF SessionInv, SessionTypeOK
<1>2. \A r \in 1..k : records[r].outcome \in Outcomes \cup {"pending"}
  <2> TAKE r \in 1..k
  <2>1. records[r] \in RecordType
    BY <1>1
  <2> QED BY <2>1 DEF RecordType
<1>3. IsFiniteSet(1..k) /\ Cardinality(1..k) = k
  BY <1>1, FS_Interval
<1>4. \A outcome : /\ CountOf(outcome) = Cardinality(Of(outcome)) /\ IsFiniteSet(Of(outcome))
                   /\ Cardinality(Of(outcome)) \in Nat
  <2> TAKE outcome
  <2>1. Of(outcome) \subseteq 1..k
    OBVIOUS
  <2>2. IsFiniteSet(Of(outcome))
    BY <1>3, <2>1, FS_Subset
  <2>3. CountOf(outcome) = Cardinality(Of(outcome))
    BY <1>1 DEF CountOf
  <2> QED BY <2>2, <2>3, FS_CardinalityType
<1>5. \A a, b : a # b => Of(a) \cap Of(b) = {}
  OBVIOUS
<1>6. 1..k = Of("passed") \cup (Of("failed") \cup (Of("skipped") \cup (Of("error") \cup Of("pending"))))
  BY <1>2 DEF Outcomes
<1> DEFINE P1 == Of("error") \cup Of("pending")
           P2 == Of("skipped") \cup P1
           P3 == Of("failed") \cup P2
<1>7. /\ Of("error") \cap Of("pending") = {} /\ Of("skipped") \cap P1 = {}
      /\ Of("failed") \cap P2 = {} /\ Of("passed") \cap P3 = {}
  BY <1>5
<1> HIDE DEF Of
<1>8. \A S, T : IsFiniteSet(S) /\ IsFiniteSet(T) /\ S \cap T = {} =>
                   IsFiniteSet(S \cup T) /\ Cardinality(S \cup T) = Cardinality(S) + Cardinality(T)
  <2> TAKE S, T
  <2> SUFFICES ASSUME IsFiniteSet(S), IsFiniteSet(T), S \cap T = {}
               PROVE  IsFiniteSet(S \cup T) /\ Cardinality(S \cup T) = Cardinality(S) + Cardinality(T)
    OBVIOUS
  <2>1. /\ IsFiniteSet(S \cup T)
        /\ Cardinality(S \cup T) = Cardinality(S) + Cardinality(T) - Cardinality(S \cap T)
    BY FS_Union
  <2>2. Cardinality(S \cap T) = 0 /\ Cardinality(S) \in Nat /\ Cardinality(T) \in Nat
    BY FS_EmptySet, FS_CardinalityType
  <2> QED BY <2>1, <2>2
<1>9. IsFiniteSet(P1) /\ Cardinality(P1) = Cardinality(Of("error")) + Cardinality(Of("pending"))
  BY <1>4, <1>7, <1>8
<1>10. IsFiniteSet(P2) /\ Cardinality(P2) = Cardinality(Of("skipped")) + Cardinality(P1)
  BY <1>4, <1>7, <1>8, <1>9
<1>11. IsFiniteSet(P3) /\ Cardinality(P3) = Cardinality(Of("failed")) + Cardinality(P2)
  BY <1>4, <1>7, <1>8, <1>10
<1>12. Cardinality(1..k) = Cardinality(Of("passed")) + Cardinality(P3)
  BY <1>4, <1>6, <1>7, <1>8, <1>11
<1>13. k = CountOf("passed") + CountOf("failed") + CountOf("skipped") + CountOf("error") + CountOf("pending")
  <2> HIDE DEF P1, P2, P3, k
  <2> QED BY <1>3, <1>4, <1>9, <1>10, <1>11, <1>12
<1>14. \A r \in 1..k : records[r].outcome = "pending" => r = k /\ item.at # "between"
  <2> SUFFICES ASSUME NEW r \in 1..k, records[r].outcome = "pending" PROVE ~OutcomeSet(r)
    BY DEF OutcomeSet, Ended
  <2>1. SUFFICES ASSUME OutcomeSet(r) PROVE FALSE
    OBVIOUS
  <2>2. records[r].outcome = VerdictOf(done[r]) /\ done[r] \in RunType
    BY <2>1 DEF SessionInv, SessionTypeOK, RunKept
  <2>3. PICK run \in RunType : run = done[r]
    BY <2>2
  <2> QED BY <2>2, <2>3, VerdictType DEF Outcomes
<1>15. Of("pending") \subseteq {k} /\ (item.at = "between" => Of("pending") = {})
  BY <1>14 DEF Of
<1>16. CountOf("pending") <= (IF item.at = "between" THEN 0 ELSE 1)
  <2>1. CASE item.at = "between"
    BY <1>4, <1>15, <2>1, FS_EmptySet
  <2>2. CASE item.at # "between"
    <3>1. IsFiniteSet({k}) /\ Cardinality({k}) = 1
      BY FS_Singleton
    <3>2. Cardinality(Of("pending")) <= Cardinality({k})
      BY <1>15, <3>1, FS_Subset
    <3> QED BY <1>4, <2>2, <3>1, <3>2
  <2> QED BY <2>1, <2>2
<1> QED BY <1>13, <1>16

\* Every record of a session holds what its own run and that run's task did, and
\* nothing of another run or from outside; its outcome is its run's; a run passes
\* only when nothing spoke against it or the test caught it itself; embeddings
\* count as unsupported only when the provider said so; the summary accounts for
\* every run (the tracker's active record, makereport, finish and summarize).
THEOREM RecordsAlwaysFaithful == SessionSpec => []RecordsFaithful
<1>1. SessionInit => SessionInv
  BY SessionStarts
<1>2. SessionInv /\ [SessionNext]_sessionVars => SessionInv'
  BY SessionStepKept
<1>3. SessionInv => RecordsFaithful
  <2> SUFFICES ASSUME SessionInv PROVE RecordsFaithful
    OBVIOUS
  <2>1. /\ DOMAIN records = 1..Len(records) /\ DOMAIN done = 1..Len(done) /\ Len(done) = Len(records)
        /\ records \in Seq(RecordType) /\ done \in Seq(RunType)
    BY DEF SessionInv, SessionTypeOK
  <2>2. ASSUME NEW r \in 1..Len(records)
        PROVE  /\ records[r].test = done[r].test
               /\ records[r].entries = done[r].entries
               /\ done[r].ended => records[r].outcome = VerdictOf(done[r])
               /\ done[r].ended /\ records[r].outcome = "passed" /\ ~done[r].caught =>
                      \A e \in Faulty : records[r].entries[e] = 0
    <3>1. /\ records[r].test = done[r].test /\ records[r].entries = done[r].entries
          /\ done[r].ended = Ended(r)
          /\ OutcomeSet(r) => records[r].outcome = VerdictOf(done[r])
          /\ done[r].raised = <<>> /\ ~done[r].caught /\ (Ended(r) \/ item.raising = "none") =>
                 \A e \in Faulty : done[r].entries[e] = 0
      <4>1. RunKept(r)
        BY DEF SessionInv
      <4> QED BY <4>1, Zenon DEF RunKept
    <3>2. ASSUME done[r].ended PROVE records[r].outcome = VerdictOf(done[r])
      <4>1. OutcomeSet(r)
        BY <3>1, <3>2, Zenon DEF OutcomeSet
      <4> QED BY <3>1, <4>1
    <3>3. ASSUME done[r].ended, records[r].outcome = "passed", ~done[r].caught
          PROVE  \A e \in Faulty : records[r].entries[e] = 0
      <4>1. Ended(r)
        BY <3>1, <3>3, Zenon
      <4>2. done[r].raised = <<>>
        <5>1. VerdictOf(done[r]) = "passed"
          BY <3>2, <3>3
        <5> QED BY <5>1 DEF VerdictOf, OutcomeOf
      <4> QED BY <3>1, <3>3, <4>1, <4>2
    <3> QED BY <3>1, <3>2, <3>3
  <2>3. (embedding = "no" \/ \E r \in DOMAIN records : records[r].entries["uncovered"] > 0) =>
            \E r \in DOMAIN done : done[r].declared
    BY <2>1 DEF SessionInv, LackDeclared
  <2>4. /\ Summarize.total = Len(records) /\ Summarize.passed = CountOf("passed")
        /\ Summarize.failed = CountOf("failed") /\ Summarize.skipped = CountOf("skipped")
        /\ Summarize.error = CountOf("error")
    BY DEF Summarize
  <2> QED BY <2>1, <2>2, <2>3, <2>4, OutcomesAddUp DEF RecordsFaithful, Faulty
<1> QED BY <1>1, <1>2, <1>3, PTL DEF SessionSpec
=============================================================================
