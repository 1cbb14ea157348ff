------------------------- MODULE AuthSessionProofs -------------------------
(***************************************************************************)
(* Proofs about AuthSession, for every number of tabs, activations, tokens *)
(* and faults of every kind.                                               *)
(*                                                                         *)
(* First what each operation of RefreshTokens does to the store. The       *)
(* inductive invariant over it is SessionInv. Each action is summarised by *)
(* what it does to the tokens (Recorded), to what is carried from the      *)
(* server to the cookie and back (Moved), and to the rest (OwnTypes); the  *)
(* parts of the invariant are then shown to survive any step that has such *)
(* a summary.                                                              *)
(***************************************************************************)
EXTENDS AuthSession, TLAPS

-----------------------------------------------------------------------------
(* What the operations of RefreshTokens do to the store, whoever performs  *)
(* them                                                                    *)

\* Every way in which the store changes.
StoreStep ==
  \/ UNCHANGED storeVars
  \/ Login
  \/ LoginBlind
  \/ \E t \in Token :
       \/ Rotate(t) \/ RotateCut(t) \/ RotateBlind(t)
       \/ RevokeReused(t) \/ Revoke(t) \/ Expire(t)

\* generate_refresh_token never draws a token twice.
LEMMA FreshIsNew ==
  ASSUME StoreTypeOK, drawn # Token
  PROVE  Fresh \in Token /\ Fresh \notin drawn /\ Fresh # NoToken
         /\ store[Fresh] = NoRecord
<1>1. \E t \in Token : t \notin drawn
  BY DEF StoreTypeOK
<1>2. Fresh \in Token /\ Fresh \notin drawn
  BY <1>1, Zenon DEF Fresh
<1> QED
  BY <1>2, NoTokenAssumption DEF StoreTypeOK

\* A record of add_token is a record.
LEMMA NewRecordTyped ==
  ASSUME NEW family \in Token
  PROVE  NewRecord(family) \in Record
BY DEF NewRecord, Record

\* add_token makes one record and leaves the others.
LEMMA WithFreshTyped ==
  ASSUME StoreTypeOK, drawn # Token, NEW family \in Token,
         NEW tokens \in [Token -> Record \cup {NoRecord}]
  PROVE  /\ WithFresh(tokens, family) \in [Token -> Record \cup {NoRecord}]
         /\ WithFresh(tokens, family)[Fresh] = NewRecord(family)
         /\ \A t \in Token : t # Fresh => WithFresh(tokens, family)[t] = tokens[t]
BY FreshIsNew, NewRecordTyped DEF WithFresh

\* What a known token's record is.
LEMMA KnownRecord ==
  ASSUME StoreTypeOK, NEW t, Known(t)
  PROVE  t \in Token /\ store[t] \in Record /\ store[t].family \in Token
         /\ t \in drawn
BY NoRecordAssumption DEF StoreTypeOK, Known, Record

\* The store that cannot be read is an empty one.
LEMMA EmptyTyped ==
  /\ Empty \in [Token -> Record \cup {NoRecord}]
  /\ \A t \in Token : Empty[t] = NoRecord
BY DEF Empty

\* Every operation leaves a well-typed store and takes back no token.
LEMMA StoreStepTyped ==
  ASSUME StoreTypeOK, StoreStep
  PROVE  StoreTypeOK' /\ drawn \subseteq drawn'
<1>1. CASE UNCHANGED storeVars
  BY <1>1 DEF StoreTypeOK, storeVars
<1>2. CASE Login
  BY <1>2, FreshIsNew, WithFreshTyped DEF Login, Draw, StoreTypeOK
<1>3. CASE LoginBlind
  BY <1>3, FreshIsNew, WithFreshTyped, EmptyTyped DEF LoginBlind, Draw, StoreTypeOK
<1>4. ASSUME NEW t \in Token, Rotate(t)
      PROVE  StoreTypeOK' /\ drawn \subseteq drawn'
  <2> DEFINE fam == store[t].family
             added == WithFresh(store, fam)
  <2>1. Known(t) /\ drawn # Token /\ drawn' = drawn \cup {Fresh}
        /\ store' = [added EXCEPT ![t].replacedBy = Fresh]
    BY <1>4 DEF Rotate, Usable, Active, Draw
  <2>2. fam \in Token /\ store[t] \in Record /\ t \in drawn
    BY <2>1, KnownRecord
  <2>3. /\ added \in [Token -> Record \cup {NoRecord}]
        /\ \A s \in Token : s # Fresh => added[s] = store[s]
    BY <2>1, <2>2, WithFreshTyped DEF StoreTypeOK
  <2>4. Fresh \in Token /\ Fresh \notin drawn
    BY <2>1, FreshIsNew
  <2>5. added[t] \in Record
    BY <2>2, <2>3, <2>4
  <2>6. [added[t] EXCEPT !.replacedBy = Fresh] \in Record
    BY <2>4, <2>5 DEF Record
  <2>7. store' = [added EXCEPT ![t] = [added[t] EXCEPT !.replacedBy = Fresh]]
    BY <2>1
  <2> HIDE DEF added, fam
  <2>8. store' \in [Token -> Record \cup {NoRecord}]
    BY <2>3, <2>6, <2>7
  <2>9. \A s \in Token \ drawn' : store'[s] = NoRecord
    BY <2>1, <2>2, <2>3, <2>7 DEF StoreTypeOK
  <2> QED
    BY <2>1, <2>4, <2>8, <2>9 DEF StoreTypeOK
<1>5. ASSUME NEW t \in Token, RotateCut(t)
      PROVE  StoreTypeOK' /\ drawn \subseteq drawn'
  <2>1. store[t].family \in Token /\ drawn # Token
    BY <1>5, KnownRecord DEF RotateCut, Usable, Active, Draw
  <2> QED
    BY <1>5, <2>1, FreshIsNew, WithFreshTyped DEF RotateCut, Draw, StoreTypeOK
<1>6. ASSUME NEW t \in Token, RotateBlind(t)
      PROVE  StoreTypeOK' /\ drawn \subseteq drawn'
  <2>1. store[t].family \in Token /\ drawn # Token
    BY <1>6, KnownRecord DEF RotateBlind, Usable, Active, Draw
  <2> QED
    BY <1>6, <2>1, FreshIsNew, WithFreshTyped, EmptyTyped DEF RotateBlind, Draw, StoreTypeOK
<1>7. ASSUME NEW t \in Token, RevokeReused(t)
      PROVE  StoreTypeOK' /\ drawn \subseteq drawn'
  <2>1. \A s \in Token : Known(s) => [store[s] EXCEPT !.revoked = TRUE] \in Record
    BY KnownRecord DEF Record
  <2>2. store' \in [Token -> Record \cup {NoRecord}]
    BY <1>7, <2>1 DEF RevokeReused, StoreTypeOK
  <2>3. \A s \in Token \ drawn : store'[s] = NoRecord
    BY <1>7 DEF RevokeReused, StoreTypeOK, Known
  <2> QED
    BY <1>7, <2>2, <2>3 DEF RevokeReused, StoreTypeOK
<1>8. ASSUME NEW t \in Token, Revoke(t) \/ Expire(t)
      PROVE  StoreTypeOK' /\ drawn \subseteq drawn'
  <2>1. Known(t) => /\ [store[t] EXCEPT !.revoked = TRUE] \in Record
                    /\ [store[t] EXCEPT !.expired = TRUE] \in Record
                    /\ t \in drawn
    BY KnownRecord DEF Record
  <2>2. drawn' = drawn /\ \/ store' = store
                          \/ Known(t) /\ store' = [store EXCEPT ![t] = [store[t] EXCEPT !.revoked = TRUE]]
                          \/ Known(t) /\ store' = [store EXCEPT ![t] = [store[t] EXCEPT !.expired = TRUE]]
    BY <1>8 DEF Revoke, Expire, Active
  <2> QED
    BY <2>1, <2>2 DEF StoreTypeOK
<1> QED
  BY <1>1, <1>2, <1>3, <1>4, <1>5, <1>6, <1>7, <1>8 DEF StoreStep

-----------------------------------------------------------------------------
(* Effects of the operations, record by record                             *)

\* A new record is one nobody has replaced, revoked or let expire.
LEMMA NewRecordFields ==
  ASSUME NEW family
  PROVE  /\ NewRecord(family).family = family
         /\ NewRecord(family).replacedBy = NoToken
         /\ NewRecord(family).revoked = FALSE
         /\ NewRecord(family).expired = FALSE
BY DEF NewRecord

\* login adds one record, of a new family.
LEMMA LoginEffect ==
  ASSUME StoreTypeOK, Login
  PROVE  /\ Fresh \in Token \ drawn /\ drawn' = drawn \cup {Fresh}
         /\ store'[Fresh] = NewRecord(Fresh)
         /\ \A s \in Token \ {Fresh} : store'[s] = store[s]
BY FreshIsNew, WithFreshTyped DEF Login, Draw, StoreTypeOK

\* A rotation that is cut short adds one record of the family of the token.
LEMMA RotateCutEffect ==
  ASSUME StoreTypeOK, NEW t, RotateCut(t)
  PROVE  /\ Usable(t) /\ t \in drawn
         /\ Fresh \in Token \ drawn /\ drawn' = drawn \cup {Fresh}
         /\ store'[Fresh] = NewRecord(store[t].family)
         /\ \A s \in Token \ {Fresh} : store'[s] = store[s]
<1>1. Usable(t) /\ store[t].family \in Token /\ t \in drawn /\ drawn # Token
  BY KnownRecord DEF RotateCut, Usable, Active, Draw
<1> QED
  BY <1>1, FreshIsNew, WithFreshTyped DEF RotateCut, Draw, StoreTypeOK

\* A rotation marks the token, besides.
LEMMA RotateEffect ==
  ASSUME StoreTypeOK, NEW t, Rotate(t)
  PROVE  /\ Usable(t) /\ t \in drawn
         /\ Fresh \in Token \ drawn /\ drawn' = drawn \cup {Fresh}
         /\ store'[Fresh] = NewRecord(store[t].family)
         /\ store'[t] = [store[t] EXCEPT !.replacedBy = Fresh]
         /\ \A s \in Token \ {Fresh, t} : store'[s] = store[s]
<1> DEFINE added == WithFresh(store, store[t].family)
<1>1. /\ Usable(t) /\ store[t].family \in Token /\ t \in drawn /\ t \in Token
      /\ drawn # Token /\ drawn' = drawn \cup {Fresh}
  BY KnownRecord DEF Rotate, Usable, Active, Draw
<1>2. Fresh \in Token \ drawn
  BY <1>1, FreshIsNew
<1>3. /\ added \in [Token -> Record \cup {NoRecord}]
      /\ added[Fresh] = NewRecord(store[t].family)
      /\ \A s \in Token \ {Fresh} : added[s] = store[s]
  BY <1>1, WithFreshTyped DEF StoreTypeOK
<1>4. store' = [added EXCEPT ![t] = [added[t] EXCEPT !.replacedBy = Fresh]]
  BY DEF Rotate
<1> HIDE DEF added
<1> QED
  BY <1>1, <1>2, <1>3, <1>4

\* An operation that misreads the store leaves at most the record it adds.
LEMMA BlindEffect ==
  ASSUME StoreTypeOK, NEW family \in Token, Draw, store' = WithFresh(Empty, family)
  PROVE  /\ Fresh \in Token \ drawn /\ drawn' = drawn \cup {Fresh}
         /\ store'[Fresh] = NewRecord(family)
         /\ \A s \in Token \ {Fresh} : store'[s] = NoRecord
BY FreshIsNew, WithFreshTyped, EmptyTyped DEF Draw

\* revoke_family revokes the tokens of the family and does nothing else.
LEMMA RevokeReusedEffect ==
  ASSUME StoreTypeOK, NEW t, RevokeReused(t)
  PROVE  /\ t \in drawn /\ drawn' = drawn
         /\ \A s \in Token :
              \/ ~Known(s) /\ store'[s] = store[s]
              \/ Known(s) /\ store[s].family # store[t].family /\ store'[s] = store[s]
              \/ /\ Known(s) /\ store[s].family = store[t].family
                 /\ store'[s] = [store[s] EXCEPT !.revoked = TRUE]
BY KnownRecord DEF RevokeReused, Active

\* A revocation or an expiry marks at most one record.
LEMMA MarkEffect ==
  ASSUME StoreTypeOK, NEW t, Revoke(t) \/ Expire(t)
  PROVE  /\ drawn' = drawn
         /\ \A s \in Token :
              \/ store'[s] = store[s]
              \/ Known(s) /\ store'[s] = [store[s] EXCEPT !.revoked = TRUE]
              \/ Known(s) /\ store'[s] = [store[s] EXCEPT !.expired = TRUE]
<1>1. /\ drawn' = drawn
      /\ \/ store' = store
         \/ Known(t) /\ store' = [store EXCEPT ![t] = [store[t] EXCEPT !.revoked = TRUE]]
         \/ Known(t) /\ store' = [store EXCEPT ![t] = [store[t] EXCEPT !.expired = TRUE]]
  BY DEF Revoke, Expire, Active
<1> QED
  BY <1>1 DEF StoreTypeOK

-----------------------------------------------------------------------------
(* Tokens only age                                                         *)

\* s is the record of one token and r an earlier one of the same token.
Older(s, r) ==
  /\ s.family = r.family
  /\ r.revoked => s.revoked
  /\ r.expired => s.expired
  /\ r.replacedBy # NoToken => s.replacedBy # NoToken

\* Marking a record makes it older.
LEMMA MarkedIsOlder ==
  ASSUME NEW r \in Record, NEW t \in Token
  PROVE  /\ Older(r, r)
         /\ Older([r EXCEPT !.revoked = TRUE], r)
         /\ Older([r EXCEPT !.expired = TRUE], r)
         /\ Older([r EXCEPT !.replacedBy = t], r)
BY NoTokenAssumption DEF Older, Record

\* No operation makes a token that was drawn known again, changes its family,
\* or takes a mark off its record.
LEMMA StoreStepAges ==
  ASSUME StoreTypeOK, StoreStep, NEW t \in drawn
  PROVE  Known(t)' => Known(t) /\ Older(store'[t], store[t])
<1> SUFFICES ASSUME Known(t)'
             PROVE  Known(t) /\ Older(store'[t], store[t])
  OBVIOUS
<1>1. t \in Token /\ store'[t] # NoRecord
  BY DEF Known
<1>2. SUFFICES \/ store'[t] = store[t]
               \/ Known(t) /\ store'[t] = [store[t] EXCEPT !.revoked = TRUE]
               \/ Known(t) /\ store'[t] = [store[t] EXCEPT !.expired = TRUE]
               \/ /\ Known(t) /\ Fresh \in Token
                  /\ store'[t] = [store[t] EXCEPT !.replacedBy = Fresh]
  <2>1. Known(t)
    BY <1>1, <1>2 DEF Known
  <2> QED
    BY <1>2, <2>1, KnownRecord, MarkedIsOlder
<1>3. CASE UNCHANGED storeVars
  BY <1>3 DEF storeVars
<1>4. CASE Login
  BY <1>1, <1>4, LoginEffect
<1>5. CASE LoginBlind
  <2>1. Draw /\ store' = WithFresh(Empty, Fresh) /\ Fresh \in Token
    BY <1>5, FreshIsNew DEF LoginBlind, Draw
  <2> QED
    BY <1>1, <2>1, BlindEffect
<1>6. ASSUME NEW s \in Token, Rotate(s)
      PROVE  \/ store'[t] = store[t]
             \/ /\ Known(t) /\ Fresh \in Token
                /\ store'[t] = [store[t] EXCEPT !.replacedBy = Fresh]
  <2>1. Known(s)
    BY <1>6, RotateEffect DEF Usable, Active
  <2> QED
    BY <1>1, <1>6, <2>1, RotateEffect
<1>7. ASSUME NEW s \in Token, RotateCut(s)
      PROVE  store'[t] = store[t]
  BY <1>1, <1>7, RotateCutEffect
<1>8. ASSUME NEW s \in Token, RotateBlind(s)
      PROVE  FALSE
  <2>1. Draw /\ store' = WithFresh(Empty, store[s].family) /\ store[s].family \in Token
    BY <1>8, KnownRecord DEF RotateBlind, Usable, Active
  <2> QED
    BY <1>1, <2>1, BlindEffect
<1>9. ASSUME NEW s \in Token, RevokeReused(s)
      PROVE  \/ store'[t] = store[t]
             \/ Known(t) /\ store'[t] = [store[t] EXCEPT !.revoked = TRUE]
  BY <1>1, <1>9, RevokeReusedEffect
<1>10. ASSUME NEW s \in Token, Revoke(s) \/ Expire(s)
       PROVE  \/ store'[t] = store[t]
              \/ Known(t) /\ store'[t] = [store[t] EXCEPT !.revoked = TRUE]
              \/ Known(t) /\ store'[t] = [store[t] EXCEPT !.expired = TRUE]
  BY <1>1, <1>10, MarkEffect
<1> QED
  BY <1>3, <1>4, <1>5, <1>6, <1>7, <1>8, <1>9, <1>10 DEF StoreStep

\* What /auth/refresh does not accept any more it never accepts again.
LEMMA StoreStepKeepsUnusable ==
  ASSUME StoreTypeOK, StoreStep, NEW t \in drawn, ~Usable(t)
  PROVE  ~Usable(t)'
<1> SUFFICES ASSUME Usable(t)' PROVE FALSE
  OBVIOUS
<1>1. /\ Known(t)' /\ ~store'[t].revoked /\ ~store'[t].expired
      /\ store'[t].replacedBy = NoToken
  BY DEF Usable, Active
<1>2. Known(t) /\ Older(store'[t], store[t])
  BY <1>1, StoreStepAges
<1> QED
  BY <1>1, <1>2 DEF Usable, Active, Older

\* Where the records after an operation come from: each is an older form of one
\* there was, or new, of a new family or of the family of an accepted token.
LEMMA RecordOrigin ==
  ASSUME StoreTypeOK, StoreStep, NEW s, Known(s)'
  PROVE  \/ s \in drawn /\ Known(s) /\ Older(store'[s], store[s])
         \/ /\ s \in Token \ drawn /\ s \in drawn'
            /\ \/ store'[s] = NewRecord(s)
               \/ \E t \in Token : Usable(t) /\ store'[s] = NewRecord(store[t].family)
<1>1. s \in Token /\ store'[s] # NoRecord
  BY DEF Known
<1>2. CASE s \in drawn
  BY <1>2, StoreStepAges
<1>3. CASE s \notin drawn
  <2>1. store[s] = NoRecord /\ ~Known(s)
    BY <1>1, <1>3 DEF StoreTypeOK, Known
  <2>2. CASE Login
    BY <1>1, <1>3, <2>1, <2>2, LoginEffect
  <2>3. CASE LoginBlind
    <3>1. Draw /\ store' = WithFresh(Empty, Fresh) /\ Fresh \in Token
      BY <2>3, FreshIsNew DEF LoginBlind, Draw
    <3> QED
      BY <1>1, <1>3, <3>1, BlindEffect
  <2>4. ASSUME NEW t \in Token, Rotate(t) \/ RotateCut(t)
        PROVE  s \in drawn' /\ Usable(t) /\ store'[s] = NewRecord(store[t].family)
    BY <1>1, <1>3, <2>1, <2>4, RotateEffect, RotateCutEffect
  <2>5. ASSUME NEW t \in Token, RotateBlind(t)
        PROVE  s \in drawn' /\ Usable(t) /\ store'[s] = NewRecord(store[t].family)
    <3>1. /\ Draw /\ store' = WithFresh(Empty, store[t].family)
          /\ store[t].family \in Token /\ Usable(t)
      BY <2>5, KnownRecord DEF RotateBlind, Usable, Active
    <3> QED
      BY <1>1, <1>3, <3>1, BlindEffect
  <2>6. ASSUME NEW t \in Token, RevokeReused(t) \/ Revoke(t) \/ Expire(t)
        PROVE  FALSE
    BY <1>1, <2>1, <2>6, RevokeReusedEffect, MarkEffect
  <2> QED
    BY <1>1, <1>3, <2>1, <2>2, <2>3, <2>4, <2>5, <2>6 DEF StoreStep, storeVars
<1> QED
  BY <1>2, <1>3

-----------------------------------------------------------------------------
(* The inductive invariant                                                 *)

\* A family is named by a token that was drawn.
FamiliesAreDrawn == \A t \in Token : Known(t) => store[t].family \in drawn

\* The token is the browser's cookie or the cookie of a request.
IsCarried(t) ==
  \/ t = jar
  \/ \E f \in Flow : flow[f].cookie = t
  \/ \E r \in late : r.cookie = t

\* Nobody can send a token the server has not answered.
CarriedIsAnswered == \A t \in Token : IsCarried(t) => t \in answered

Superseded(t) == Known(t) /\ store[t].replacedBy # NoToken

\* The token of an answer under way is in no other one, has been sent by nobody
\* and so cannot have been replaced.
GivenIsNew ==
  \A f \in Flow : flow[f].given # NoToken =>
    /\ flow[f].answer = "ok" /\ flow[f].call \in {"login", "refresh"}
    /\ flow[f].given \in answered
    /\ ~IsCarried(flow[f].given)
    /\ \A g \in Flow \ {f} : flow[g].given # flow[f].given
    /\ ~Superseded(flow[f].given)

\* The part of TypeOK that is not about tokens.
OwnTypes ==
  /\ jar \in Cookie
  /\ access \in [Tab -> BOOLEAN]
  /\ state \in [Tab -> {"closed", "loading", "guest", "authed"}]
  /\ flow \in [Flow -> Activation]
  /\ \A f \in Flow : flow[f].call \in CallsOf(flow[f].op)
  /\ late \in SUBSET [call : {"refresh", "logout"}, cookie : Cookie]
  /\ faults \in 0 .. MaxFaults
  /\ misread \in BOOLEAN
  /\ loggedOut \in SUBSET Tab

SessionInv ==
  /\ TypeOK
  /\ FamiliesAreDrawn
  /\ CarriedIsAnswered
  /\ GivenIsNew
  /\ ReusedFamilyIsDead
  /\ OneUsableToken
  /\ JarIsCurrent

-----------------------------------------------------------------------------
(* Summaries of a step                                                     *)

\* What the step does to the tokens.
Recorded ==
  /\ misread => misread'
  /\ \/ /\ UNCHANGED storeVars \/ \E t \in Token : RotateCut(t) \/ Revoke(t) \/ Expire(t)
        /\ UNCHANGED <<answered, reused>>
     \/ /\ Login
        /\ answered' = answered \cup {Fresh} /\ UNCHANGED reused
     \/ /\ \E t \in answered : Rotate(t) /\ IsCarried(t)
        /\ answered' = answered \cup {Fresh} /\ UNCHANGED reused
        /\ Fresh \in lost' \/ \E f \in Flow : flow'[f].given = Fresh
     \/ \E t \in Token : /\ RevokeReused(t)
                         /\ reused' = reused \cup {store[t].family}
                         /\ UNCHANGED answered
     \/ /\ misread'
        /\ LoginBlind \/ \E t \in Token : RotateBlind(t) \/ RotateCut(t)
        /\ answered' = answered \cup {Fresh} /\ UNCHANGED reused

\* Activations end or go on; the jar may take what one of them was given.
Left ==
  /\ \A f \in Flow :
       \/ flow'[f] = flow[f]
       \/ /\ flow'[f].given = NoToken /\ flow'[f].cookie \in {NoToken, jar'}
          /\ flow[f].given \in {NoToken, jar'} \cup lost'
  /\ \/ jar' \in {jar, NoToken}
     \/ \E f \in Flow : jar' = flow[f].given /\ flow'[f].given = NoToken
  /\ \A r \in late' : r \in late \/ \E f \in Flow : r.cookie = flow[f].cookie
  /\ lost \subseteq lost' /\ lost' \subseteq answered'

\* The activation f is answered, perhaps with a token.
Served(f) ==
  /\ flow[f].given = NoToken
  /\ \A g \in Flow \ {f} : flow'[g] = flow[g]
  /\ flow'[f].cookie = flow[f].cookie
  /\ flow'[f].given # NoToken =>
       /\ flow'[f].answer = "ok" /\ flow'[f].call \in {"login", "refresh"}
       /\ flow'[f].given \in Token \ drawn
       /\ flow'[f].given \in answered'
       /\ store'[flow'[f].given].replacedBy = NoToken
  /\ UNCHANGED <<jar, late, lost>>

Moved == Left \/ \E f \in Flow : Served(f)

Summary == Recorded /\ Moved /\ OwnTypes'

-----------------------------------------------------------------------------
(* What such a step preserves: the tokens                                  *)

\* What Recorded says is an operation of the store.
LEMMA RecordedIsStoreStep ==
  ASSUME TypeOK, Recorded
  PROVE  StoreTypeOK /\ StoreStep /\ StoreTypeOK' /\ drawn \subseteq drawn'
<1>1. StoreTypeOK /\ answered \subseteq Token
  BY DEF TypeOK, StoreTypeOK
<1>2. StoreStep
  BY <1>1 DEF Recorded, StoreStep
<1> QED
  BY <1>1, <1>2, StoreStepTyped

\* Only tokens that are drawn are put in answers, name reused families, or name
\* the families of records.
LEMMA DrawnKept ==
  ASSUME TypeOK, FamiliesAreDrawn, Recorded
  PROVE  FamiliesAreDrawn' /\ answered' \subseteq drawn' /\ reused' \subseteq drawn'
<1>1. /\ StoreTypeOK /\ StoreStep /\ drawn \subseteq drawn' /\ drawn \subseteq Token
      /\ answered \subseteq drawn /\ reused \subseteq drawn
  BY RecordedIsStoreStep DEF TypeOK, StoreTypeOK
<1>2. ASSUME NEW s \in Token, Known(s)'
      PROVE  store'[s].family \in drawn'
  <2>1. CASE Known(s) /\ Older(store'[s], store[s])
    BY <1>1, <2>1 DEF FamiliesAreDrawn, Older
  <2>2. CASE s \in drawn' /\ store'[s] = NewRecord(s)
    BY <2>2, NewRecordFields
  <2>3. ASSUME NEW t \in Token, Usable(t), store'[s] = NewRecord(store[t].family)
        PROVE  store'[s].family \in drawn'
    <3>1. Known(t)
      BY <2>3 DEF Usable, Active
    <3>2. store'[s].family = store[t].family
      BY <2>3, NewRecordFields
    <3> QED
      BY <1>1, <3>1, <3>2 DEF FamiliesAreDrawn
  <2> QED
    BY <1>1, <1>2, <2>1, <2>2, <2>3, RecordOrigin
<1>3. answered' \subseteq drawn'
  <2>1. answered' = answered \/ /\ Draw
                                /\ answered' = answered \cup {Fresh}
    BY DEF Recorded, Login, Rotate, LoginBlind, RotateBlind, RotateCut
  <2> QED
    BY <1>1, <2>1 DEF Draw
<1>4. reused' \subseteq drawn'
  <2>1. \/ reused' = reused
        \/ \E t \in Token : RevokeReused(t) /\ reused' = reused \cup {store[t].family}
    BY DEF Recorded
  <2>2. \A t \in Token : RevokeReused(t) => Known(t)
    BY DEF RevokeReused, Active
  <2> QED
    BY <1>1, <2>1, <2>2 DEF FamiliesAreDrawn
<1> QED
  BY <1>2, <1>3, <1>4 DEF FamiliesAreDrawn

\* No new token joins a family in which a reuse was detected: its tokens are
\* revoked, so none of them is exchanged.
LEMMA ReusedKept ==
  ASSUME SessionInv, Recorded
  PROVE  ReusedFamilyIsDead'
<1> SUFFICES ASSUME ~misread', NEW s \in Token, Known(s)', store'[s].family \in reused'
             PROVE  store'[s].revoked
  BY DEF ReusedFamilyIsDead
<1>1. /\ StoreTypeOK /\ StoreStep /\ drawn \subseteq Token /\ reused \subseteq drawn
      /\ ~misread /\ TypeOK /\ ReusedFamilyIsDead
  BY RecordedIsStoreStep DEF SessionInv, Recorded, TypeOK, StoreTypeOK
<1>2. CASE reused' = reused
  <2>1. CASE s \in drawn /\ Known(s) /\ Older(store'[s], store[s])
    BY <1>1, <1>2, <2>1 DEF ReusedFamilyIsDead, Older
  <2>2. CASE s \in Token \ drawn /\ store'[s] = NewRecord(s)
    BY <1>1, <1>2, <2>2, NewRecordFields
  <2>3. ASSUME NEW t \in Token, Usable(t), store'[s] = NewRecord(store[t].family)
        PROVE  FALSE
    BY <1>1, <1>2, <2>3, NewRecordFields DEF ReusedFamilyIsDead, Usable, Active
  <2> QED
    BY <1>1, <2>1, <2>2, <2>3, RecordOrigin
<1>3. ASSUME NEW t \in Token, RevokeReused(t), reused' = reused \cup {store[t].family}
      PROVE  store'[s].revoked
  <2>1. /\ Known(s) => store[s] \in Record
        /\ store'[s] # NoRecord
    BY <1>1, KnownRecord DEF Known
  <2>2. CASE Known(s) /\ store[s].family # store[t].family /\ store'[s] = store[s]
    BY <1>1, <1>3, <2>2 DEF ReusedFamilyIsDead
  <2>3. CASE Known(s) /\ store'[s] = [store[s] EXCEPT !.revoked = TRUE]
    BY <2>1, <2>3 DEF Record
  <2> QED
    BY <1>1, <1>3, <2>1, <2>2, <2>3, RevokeReusedEffect DEF Known
<1> QED
  BY <1>2, <1>3 DEF Recorded

\* A rotation makes one token of the family usable and another unusable; no
\* other operation makes one usable, but a login, which begins a family.
LEMMA OneUsableKept ==
  ASSUME SessionInv, Recorded
  PROVE  OneUsableToken'
<1> SUFFICES ASSUME ~misread', NEW s \in answered', NEW t \in answered',
                    Usable(s)', Usable(t)', store'[s].family = store'[t].family
             PROVE  s = t
  BY DEF OneUsableToken
<1>1. /\ StoreTypeOK /\ StoreStep /\ drawn \subseteq Token /\ answered \subseteq drawn
      /\ ~misread /\ TypeOK /\ OneUsableToken /\ FamiliesAreDrawn
  BY RecordedIsStoreStep DEF SessionInv, Recorded, TypeOK, StoreTypeOK
<1>2. ASSUME NEW u \in answered, Usable(u)'
      PROVE  Usable(u) /\ store'[u].family = store[u].family
             /\ store[u].family \in drawn /\ store'[u].replacedBy = NoToken
  <2>1. Known(u)' /\ u \in drawn /\ u \in Token /\ store'[u].replacedBy = NoToken
    BY <1>1, <1>2 DEF Usable, Active
  <2>2. Usable(u)
    BY <1>1, <1>2, <2>1, StoreStepKeepsUnusable
  <2>3. Known(u) /\ store'[u].family = store[u].family
    BY <1>1, <2>1, StoreStepAges DEF Older
  <2> QED
    BY <1>1, <2>1, <2>2, <2>3 DEF FamiliesAreDrawn
<1>3. CASE s \in answered /\ t \in answered
  BY <1>1, <1>2, <1>3 DEF OneUsableToken
<1>4. CASE Login /\ answered' = answered \cup {Fresh}
  <2>1. Fresh \notin drawn /\ store'[Fresh].family = Fresh
    BY <1>1, <1>4, LoginEffect, NewRecordFields
  <2> QED
    BY <1>1, <1>2, <1>3, <1>4, <2>1
<1>5. ASSUME NEW u \in answered, Rotate(u), answered' = answered \cup {Fresh}
      PROVE  s = t
  <2>1. /\ Usable(u) /\ u \in drawn /\ Fresh \in Token \ drawn
        /\ store'[Fresh].family = store[u].family
        /\ store'[u] = [store[u] EXCEPT !.replacedBy = Fresh]
    BY <1>1, <1>5, RotateEffect, NewRecordFields
  <2>2. store'[u].replacedBy = Fresh
    BY <1>1, <2>1, KnownRecord DEF Usable, Active, Record
  <2>3. ~Usable(u)'
    BY <1>5, <1>2, <2>1, <2>2, NoTokenAssumption
  <2>4. \A v \in answered : Usable(v)' => store'[v].family # store[u].family
    BY <1>1, <1>2, <1>5, <2>1, <2>3 DEF OneUsableToken
  <2> QED
    BY <1>3, <1>5, <2>1, <2>4
<1> QED
  BY <1>1, <1>3, <1>4, <1>5 DEF Recorded

-----------------------------------------------------------------------------
(* What such a step preserves: what is carried                             *)

\* Only a token that somebody has sent is superseded, and the token it is
\* exchanged for is under way or lost.
LEMMA SupersededStep ==
  ASSUME TypeOK, Recorded, NEW t \in drawn, Superseded(t)'
  PROVE  \/ Superseded(t) /\ store'[t].replacedBy = store[t].replacedBy
         \/ /\ IsCarried(t)
            /\ \/ store'[t].replacedBy \in lost'
               \/ \E f \in Flow : flow'[f].given = store'[t].replacedBy
<1>1. /\ StoreTypeOK /\ t \in Token /\ Known(t)' /\ store'[t] # NoRecord
      /\ store'[t].replacedBy # NoToken
  BY DEF TypeOK, StoreTypeOK, Superseded, Known
<1>2. CASE store'[t] = store[t]
  BY <1>1, <1>2 DEF Superseded, Known
<1>3. ASSUME NEW r \in Record, store[t] = r,
             \/ store'[t] = [r EXCEPT !.revoked = TRUE]
             \/ store'[t] = [r EXCEPT !.expired = TRUE]
      PROVE  Superseded(t) /\ store'[t].replacedBy = store[t].replacedBy
  BY <1>1, <1>3, NoRecordAssumption DEF Superseded, Known, Record
<1>4. Known(t) => store[t] \in Record
  BY <1>1, KnownRecord
<1>5. CASE \E s \in Token : RotateCut(s) \/ Revoke(s) \/ Expire(s)
  BY <1>1, <1>2, <1>3, <1>4, <1>5, RotateCutEffect, MarkEffect
<1>6. CASE Login
  BY <1>1, <1>2, <1>6, LoginEffect
<1>7. ASSUME NEW s \in answered, Rotate(s), IsCarried(s),
             Fresh \in lost' \/ \E f \in Flow : flow'[f].given = Fresh
      PROVE  \/ store'[t] = store[t]
             \/ /\ IsCarried(t)
                /\ \/ store'[t].replacedBy \in lost'
                   \/ \E f \in Flow : flow'[f].given = store'[t].replacedBy
  <2>1. /\ Known(s) /\ store'[s] = [store[s] EXCEPT !.replacedBy = Fresh]
        /\ t \notin {Fresh, s} => store'[t] = store[t]
        /\ t # Fresh
    BY <1>1, <1>7, RotateEffect DEF Usable, Active
  <2>2. CASE t = s
    <3>1. store'[t].replacedBy = Fresh
      BY <1>4, <2>1, <2>2 DEF Record
    <3> QED
      BY <1>7, <2>2, <3>1
  <2> QED
    BY <2>1, <2>2
<1>8. ASSUME NEW s \in Token, RevokeReused(s)
      PROVE  \/ Superseded(t) /\ store'[t].replacedBy = store[t].replacedBy
             \/ store'[t] = store[t]
  BY <1>1, <1>3, <1>4, <1>8, RevokeReusedEffect
<1>9. CASE LoginBlind
  <2>1. Draw /\ store' = WithFresh(Empty, Fresh) /\ Fresh \in Token
    BY <1>1, <1>9, FreshIsNew DEF LoginBlind, Draw
  <2> QED
    BY <1>1, <2>1, BlindEffect
<1>10. ASSUME NEW s \in Token, RotateBlind(s)
       PROVE  FALSE
  <2>1. Draw /\ store' = WithFresh(Empty, store[s].family) /\ store[s].family \in Token
    BY <1>1, <1>10, KnownRecord DEF RotateBlind, Usable, Active
  <2> QED
    BY <1>1, <2>1, BlindEffect
<1> QED
  BY <1>1, <1>2, <1>5, <1>6, <1>7, <1>8, <1>9, <1>10 DEF Recorded, storeVars

\* What GivenIsNew and CarriedIsAnswered say together.
LEMMA CarriedIsNotGiven ==
  ASSUME SessionInv, NEW f \in Flow, flow[f].given # NoToken
  PROVE  /\ flow[f].given \in answered /\ flow[f].given \in drawn
         /\ flow[f].given # jar
         /\ \A g \in Flow : flow[g].cookie # flow[f].given
         /\ \A r \in late : r.cookie # flow[f].given
         /\ \A g \in Flow \ {f} : flow[g].given # flow[f].given
BY DEF SessionInv, GivenIsNew, IsCarried, TypeOK

\* What is carried comes from the jar, from cookies, or from an answer.
LEMMA CarriedKept ==
  ASSUME SessionInv, Recorded, Moved, answered \subseteq answered'
  PROVE  CarriedIsAnswered'
<1> SUFFICES ASSUME NEW t \in Token, IsCarried(t)'
             PROVE  t \in answered'
  BY DEF CarriedIsAnswered
<1>1. /\ \A u \in Token : IsCarried(u) => u \in answered'
      /\ \A f \in Flow : flow[f].given # NoToken => flow[f].given \in answered'
      /\ NoToken \notin Token
  BY NoTokenAssumption DEF SessionInv, CarriedIsAnswered, GivenIsNew
<1>2. CASE Left
  <2>1. jar' = t => t \in answered'
    BY <1>1, <1>2 DEF Left, IsCarried
  <2>2. ASSUME NEW f \in Flow, flow'[f].cookie = t
        PROVE  t \in answered'
    BY <1>1, <1>2, <2>1, <2>2 DEF Left, IsCarried
  <2>3. ASSUME NEW r \in late', r.cookie = t
        PROVE  t \in answered'
    BY <1>1, <1>2, <2>3 DEF Left, IsCarried
  <2> QED
    BY <2>1, <2>2, <2>3 DEF IsCarried
<1>3. ASSUME NEW f \in Flow, Served(f)
      PROVE  t \in answered'
  <2>1. \A g \in Flow : flow'[g].cookie = flow[g].cookie
    BY <1>3 DEF Served
  <2> QED
    BY <1>1, <1>3, <2>1 DEF Served, IsCarried
<1> QED
  BY <1>2, <1>3 DEF Moved

\* The token of a new answer is new; those of the others stay with them until
\* they reach the jar or are lost.
LEMMA GivenKept ==
  ASSUME SessionInv, Recorded, Moved, answered \subseteq answered'
  PROVE  GivenIsNew'
<1> SUFFICES ASSUME NEW f \in Flow, NEW t, t = flow'[f].given, t # NoToken
             PROVE  /\ flow'[f].answer = "ok" /\ flow'[f].call \in {"login", "refresh"}
                    /\ t \in answered'
                    /\ ~IsCarried(t)'
                    /\ \A g \in Flow \ {f} : flow'[g].given # t
                    /\ ~Superseded(t)'
  BY DEF GivenIsNew, IsCarried, Superseded, Known
<1>1. /\ TypeOK /\ answered \subseteq drawn /\ GivenIsNew /\ NoToken \notin Token
      /\ \A g \in Flow : flow[g].cookie \in Cookie
      /\ \A r \in late : r.cookie \in Cookie
      /\ jar \in Cookie /\ CarriedIsAnswered
  BY NoTokenAssumption DEF SessionInv, TypeOK, Activation
<1>2. ASSUME flow'[f] = flow[f]
      PROVE  /\ t \in drawn /\ t \in answered' /\ ~Superseded(t)'
             /\ t # jar
             /\ \A g \in Flow : flow[g].cookie # t
             /\ \A r \in late : r.cookie # t
             /\ \A g \in Flow \ {f} : flow[g].given # t
             /\ flow'[f].answer = "ok" /\ flow'[f].call \in {"login", "refresh"}
  <2>1. /\ t = flow[f].given /\ t \in drawn /\ t \in answered'
        /\ ~Superseded(t) /\ ~IsCarried(t)
    BY <1>1, <1>2 DEF GivenIsNew
  <2>2. ~Superseded(t)'
    BY <1>1, <2>1, SupersededStep
  <2>3. /\ t # jar
        /\ \A g \in Flow : flow[g].cookie # t
        /\ \A r \in late : r.cookie # t
        /\ \A g \in Flow \ {f} : flow[g].given # t
    BY <2>1, CarriedIsNotGiven
  <2> QED
    BY <1>1, <1>2, <2>1, <2>2, <2>3 DEF GivenIsNew
<1>3. CASE Left
  <2>1. flow'[f] = flow[f]
    BY <1>3 DEF Left
  <2>2. jar' # t
    BY <1>1, <1>2, <1>3, <2>1 DEF Left
  <2>3. \A g \in Flow : flow'[g].cookie # t
    BY <1>2, <1>3, <2>1, <2>2 DEF Left
  <2>4. \A r \in late' : r.cookie # t
    BY <1>2, <1>3, <2>1 DEF Left
  <2>5. \A g \in Flow \ {f} : flow'[g].given # t
    BY <1>2, <1>3, <2>1 DEF Left
  <2> QED
    BY <1>2, <2>1, <2>2, <2>3, <2>4, <2>5 DEF IsCarried
<1>4. ASSUME NEW h \in Flow, Served(h)
      PROVE  /\ flow'[f].answer = "ok" /\ flow'[f].call \in {"login", "refresh"}
             /\ t \in answered'
             /\ ~IsCarried(t)'
             /\ \A g \in Flow \ {f} : flow'[g].given # t
             /\ ~Superseded(t)'
  <2>1. /\ \A g \in Flow : flow'[g].cookie = flow[g].cookie
        /\ jar' = jar /\ late' = late
    BY <1>4 DEF Served
  <2>2. CASE h = f
    <3>1. /\ t \in Token \ drawn /\ t \in answered' /\ store'[t].replacedBy = NoToken
          /\ flow'[f].answer = "ok" /\ flow'[f].call \in {"login", "refresh"}
      BY <1>4, <2>2 DEF Served
    <3>2. t # jar /\ \A g \in Flow : flow[g].cookie # t
      BY <1>1, <3>1 DEF CarriedIsAnswered, IsCarried
    <3>3. \A r \in late : r.cookie # t
      BY <1>1, <3>1 DEF CarriedIsAnswered, IsCarried
    <3>4. \A g \in Flow \ {f} : flow'[g].given # t
      BY <1>1, <1>4, <2>2, <3>1 DEF Served, GivenIsNew
    <3> QED
      BY <2>1, <3>1, <3>2, <3>3, <3>4 DEF IsCarried, Superseded
  <2>3. CASE h # f
    <3>1. flow'[f] = flow[f]
      BY <1>4, <2>3 DEF Served
    <3>2. flow'[h].given # t
      BY <1>1, <1>2, <1>4, <3>1 DEF Served
    <3>3. \A g \in Flow \ {f} : flow'[g].given # t
      BY <1>2, <1>4, <3>1, <3>2 DEF Served
    <3> QED
      BY <1>2, <2>1, <3>1, <3>3 DEF IsCarried
  <2> QED
    BY <2>2, <2>3
<1> QED
  BY <1>3, <1>4 DEF Moved

\* The jar's token is superseded by one that is under way or lost, and the jar
\* only changes to tokens that are not superseded.
LEMMA JarKept ==
  ASSUME SessionInv, Recorded, Moved, answered \subseteq answered'
  PROVE  JarIsCurrent'
<1> SUFFICES ASSUME Superseded(jar)'
             PROVE  \/ store'[jar'].replacedBy \in lost'
                    \/ \E f \in Flow : flow'[f].given = store'[jar'].replacedBy
  BY DEF JarIsCurrent, Superseded
<1> DEFINE new == store'[jar'].replacedBy
<1>1. /\ TypeOK /\ StoreTypeOK /\ StoreTypeOK' /\ GivenIsNew /\ JarIsCurrent
      /\ answered \subseteq drawn
  BY RecordedIsStoreStep DEF SessionInv, TypeOK
<1>2. jar' \in Token /\ new # NoToken
  BY DEF Superseded, Known
<1>3. CASE jar' = jar
  <2>1. jar \in drawn
    BY <1>1, <1>2, <1>3 DEF SessionInv, CarriedIsAnswered, IsCarried
  <2>2. \/ Superseded(jar) /\ new = store[jar].replacedBy
        \/ new \in lost' \/ \E f \in Flow : flow'[f].given = new
    <3>1. ASSUME NEW u \in drawn, Superseded(u)'
          PROVE  \/ Superseded(u) /\ store'[u].replacedBy = store[u].replacedBy
                 \/ store'[u].replacedBy \in lost'
                 \/ \E f \in Flow : flow'[f].given = store'[u].replacedBy
      BY <1>1, <3>1, SupersededStep
    <3>2. PICK u \in drawn : u = jar
      BY <2>1
    <3>3. Superseded(u)'
      BY <1>3, <3>2 DEF Superseded, Known
    <3> QED
      BY <1>3, <3>1, <3>2, <3>3
  <2>3. CASE Superseded(jar) /\ new = store[jar].replacedBy
    <3>1. new \in lost \/ \E f \in Flow : flow[f].given = new
      BY <1>1, <2>3 DEF JarIsCurrent, Superseded
    <3>2. lost \subseteq lost'
      BY DEF Moved, Left, Served
    <3>3. ASSUME NEW f \in Flow, flow[f].given = new
          PROVE  flow'[f].given = new \/ new \in lost'
      <4>1. jar # new
        BY <1>2, <3>3, CarriedIsNotGiven
      <4>2. CASE Left
        BY <1>2, <1>3, <3>3, <4>1, <4>2 DEF Left
      <4>3. ASSUME NEW h \in Flow, Served(h)
            PROVE  flow'[f].given = new
        BY <1>2, <3>3, <4>3 DEF Served
      <4> QED
        BY <4>2, <4>3 DEF Moved
    <3> QED
      BY <3>1, <3>2, <3>3
  <2> QED
    BY <2>2, <2>3
<1>4. ASSUME NEW f \in Flow, jar' = flow[f].given
      PROVE  FALSE
  <2>1. /\ jar' # NoToken
    BY <1>2, NoTokenAssumption
  <2>2. jar' \in drawn /\ ~Superseded(flow[f].given) /\ ~IsCarried(flow[f].given)
    BY <1>1, <1>4, <2>1 DEF GivenIsNew
  <2>3. ASSUME NEW u \in drawn, ~Superseded(u), ~IsCarried(u) PROVE ~Superseded(u)'
    BY <1>1, <2>3, SupersededStep
  <2>4. PICK u \in drawn : u = flow[f].given
    BY <1>4, <2>2
  <2>5. ~Superseded(u)'
    BY <2>2, <2>3, <2>4
  <2> QED
    BY <1>4, <2>4, <2>5 DEF Superseded, Known
<1>5. jar' = jar \/ \E f \in Flow : jar' = flow[f].given
  BY <1>2, NoTokenAssumption DEF Moved, Left, Served
<1> QED
  BY <1>3, <1>4, <1>5

-----------------------------------------------------------------------------
(* What the actions are built from                                         *)

Typed(a) == a \in Activation /\ a.call \in CallsOf(a.op)

\* An activation that asks for something.
LEMMA SentTyped ==
  ASSUME NEW op \in Op \cup {"none"}, NEW call \in CallsOf(op),
         NEW cookie \in Cookie, NEW bearer \in BOOLEAN
  PROVE  /\ Typed(Sent(op, call, cookie, bearer))
         /\ Sent(op, call, cookie, bearer).given = NoToken
         /\ Sent(op, call, cookie, bearer).cookie = cookie
BY DEF Typed, Sent, Activation, Cookie

\* An activation that is over.
LEMMA IdleTyped == Typed(Idle) /\ Idle.given = NoToken /\ Idle.cookie = NoToken
<1>1. "none" \in CallsOf("none") /\ NoToken \in Cookie
  BY DEF CallsOf, Cookie
<1> QED
  BY <1>1, SentTyped DEF Idle

\* The operations and the calls that are ever named.
LEMMA CallsTyped ==
  /\ {"initialize", "authenticate", "call", "recover", "logout"} = Op
  /\ CallsOf("initialize") = {"status", "refresh", "me"}
  /\ CallsOf("authenticate") = {"login", "me"}
  /\ CallsOf("call") = {"api"}
  /\ CallsOf("recover") = {"refresh", "me"}
  /\ CallsOf("logout") = {"logout"}
BY DEF Op, CallsOf

\* What the invariant says of one activation and of its tab.
LEMMA FlowTyped ==
  ASSUME SessionInv, NEW f \in Flow
  PROVE  /\ Typed(flow[f]) /\ TabOf[f] \in Tab
         /\ flow[f].cookie \in Cookie /\ flow[f].given \in Cookie
         /\ jar \in Cookie /\ access[TabOf[f]] \in BOOLEAN
         /\ flow[f].cookie \in answered \cup {NoToken}
         /\ flow[f].given \in answered \cup {NoToken}
<1>1. /\ Typed(flow[f]) /\ TabOf[f] \in Tab
      /\ flow[f].cookie \in Cookie /\ flow[f].given \in Cookie
      /\ jar \in Cookie /\ access[TabOf[f]] \in BOOLEAN
  BY TabOfAssumption DEF SessionInv, TypeOK, Typed, Activation
<1>2. flow[f].cookie \in answered \cup {NoToken}
  BY <1>1 DEF SessionInv, CarriedIsAnswered, IsCarried, Cookie
<1>3. flow[f].given \in answered \cup {NoToken}
  BY DEF SessionInv, GivenIsNew
<1> QED
  BY <1>1, <1>2, <1>3

\* An activation that has no token to give.
LEMMA NothingGiven ==
  ASSUME SessionInv, NEW f \in Flow,
         \/ flow[f] = Idle
         \/ flow[f].answer # "ok"
         \/ flow[f].call \notin {"login", "refresh"}
  PROVE  flow[f].given = NoToken
BY IdleTyped DEF SessionInv, GivenIsNew

\* What becomes of a tab.
LEMMA TabStep ==
  ASSUME SessionInv, NEW tab \in Tab,
         BecomeGuest(tab) \/ BecomeAuthed(tab) \/ UNCHANGED tabVars
  PROVE  /\ access' \in [Tab -> BOOLEAN]
         /\ state' \in [Tab -> {"closed", "loading", "guest", "authed"}]
BY DEF SessionInv, TypeOK, BecomeGuest, BecomeAuthed, tabVars

\* The faults counted stay within their bound.
LEMMA HappensTyped ==
  ASSUME SessionInv, NEW kind, Happens(kind)
  PROVE  faults' \in 0 .. MaxFaults
BY BoundAssumption DEF SessionInv, TypeOK, Happens

\* A step that leaves the tokens alone.
LEMMA QuietStep ==
  ASSUME UNCHANGED <<storeVars, answered, reused>>, misread => misread'
  PROVE  Recorded
BY DEF Recorded

\* One activation ends or goes on.
LEMMA LeftStep ==
  ASSUME SessionInv, NEW f \in Flow, NEW a, Typed(a), Goto(f, a),
         a.given = NoToken, a.cookie \in {NoToken, jar'},
         flow[f].given \in {NoToken, jar'} \cup lost',
         jar' \in {jar, NoToken, flow[f].given},
         \A r \in late' : r \in late \/ r.cookie = flow[f].cookie,
         lost \subseteq lost', lost' \subseteq answered'
  PROVE  /\ Left
         /\ flow' \in [Flow -> Activation]
         /\ \A g \in Flow : flow'[g].call \in CallsOf(flow'[g].op)
<1>1. /\ flow' \in [Flow -> Activation]
      /\ \A g \in Flow : flow'[g].call \in CallsOf(flow'[g].op)
      /\ flow'[f] = a /\ \A g \in Flow \ {f} : flow'[g] = flow[g]
  BY DEF SessionInv, TypeOK, Goto, Typed
<1> QED
  BY <1>1 DEF Left

\* One activation is answered.
LEMMA ServedStep ==
  ASSUME SessionInv, NEW f \in Flow, NEW answer \in {"ok", "canRefresh", "refused"},
         NEW given \in Cookie, Answer(f, answer, given), flow[f].given = NoToken,
         UNCHANGED <<jar, late, lost>>,
         given # NoToken =>
           /\ answer = "ok" /\ flow[f].call \in {"login", "refresh"}
           /\ given \in Token \ drawn /\ store'[given].replacedBy = NoToken
  PROVE  /\ Served(f)
         /\ flow'[f].given = given
         /\ answered' = answered \cup ({given} \ {NoToken})
         /\ flow' \in [Flow -> Activation]
         /\ \A g \in Flow : flow'[g].call \in CallsOf(flow'[g].op)
<1>1. flow[f] \in Activation /\ flow[f].call \in CallsOf(flow[f].op)
  BY FlowTyped DEF Typed
<1> DEFINE a == [flow[f] EXCEPT !.answer = answer, !.given = given]
<1>2. /\ a \in Activation /\ a.call = flow[f].call /\ a.op = flow[f].op
      /\ a.cookie = flow[f].cookie /\ a.answer = answer /\ a.given = given
  BY <1>1 DEF Activation
<1>3. flow' = [flow EXCEPT ![f] = a] /\ answered' = answered \cup ({given} \ {NoToken})
  BY DEF Answer, Goto
<1> HIDE DEF a
<1>4. flow'[f] = a /\ \A g \in Flow \ {f} : flow'[g] = flow[g]
  BY <1>3 DEF SessionInv, TypeOK
<1>5. /\ flow' \in [Flow -> Activation]
      /\ \A g \in Flow : flow'[g].call \in CallsOf(flow'[g].op)
  BY <1>1, <1>2, <1>3, <1>4 DEF SessionInv, TypeOK
<1> QED
  BY <1>2, <1>3, <1>4, <1>5 DEF Served

-----------------------------------------------------------------------------
(* The summary of each action                                              *)

\* What is known of the parts that a step leaves as they are.
LEMMA PartsTyped ==
  ASSUME SessionInv
  PROVE  /\ OwnTypes /\ lost \subseteq answered /\ Cookie = Token \cup {NoToken}
         /\ Typed(Idle) /\ Idle.given = NoToken /\ Idle.cookie = NoToken
BY IdleTyped DEF SessionInv, TypeOK, OwnTypes, Cookie

\* What the user begins carries the cookie of the jar.
LEMMA BeginSummary ==
  ASSUME SessionInv, NEW f \in Flow, Begin(f)
  PROVE  Summary
<1>1. /\ flow[f] = Idle => flow[f].given = NoToken
      /\ TabOf[f] \in Tab /\ jar \in Cookie /\ access[TabOf[f]] \in BOOLEAN
  BY FlowTyped, NothingGiven
<1>2. UNCHANGED <<storeVars, jar, late, faults, answered, lost, reused, misread>>
      /\ flow[f] = Idle
  BY DEF Begin, Load, Authenticate, Call, Logout, tabVars, history
<1>3. Recorded
  BY <1>2, QuietStep
<1>4. /\ access' \in [Tab -> BOOLEAN]
      /\ state' \in [Tab -> {"closed", "loading", "guest", "authed"}]
      /\ loggedOut' \in SUBSET Tab
  BY <1>1, PartsTyped DEF OwnTypes, Begin, Load, Authenticate, Call, Logout, tabVars, history
<1>5. \E a : Typed(a) /\ a.given = NoToken /\ a.cookie = jar /\ Goto(f, a)
  <2>1. \/ Goto(f, Sent("initialize", "status", jar, FALSE))
        \/ Goto(f, Sent("authenticate", "login", jar, FALSE))
        \/ Goto(f, Sent("call", "api", jar, access[TabOf[f]]))
        \/ Goto(f, Sent("logout", "logout", jar, access[TabOf[f]]))
    BY DEF Begin, Load, Authenticate, Call, Logout
  <2>2. ASSUME NEW op \in Op, NEW call \in CallsOf(op), NEW bearer \in BOOLEAN,
               Goto(f, Sent(op, call, jar, bearer))
        PROVE  \E a : Typed(a) /\ a.given = NoToken /\ a.cookie = jar /\ Goto(f, a)
    BY <1>1, <2>2, SentTyped
  <2> QED
    BY <1>1, <2>1, <2>2, CallsTyped
<1>6. PICK a : Typed(a) /\ a.given = NoToken /\ a.cookie = jar /\ Goto(f, a)
  BY <1>5
<1>7. /\ Left /\ flow' \in [Flow -> Activation]
      /\ \A g \in Flow : flow'[g].call \in CallsOf(flow'[g].op)
  BY <1>1, <1>2, <1>6, LeftStep, PartsTyped
<1> QED
  BY <1>2, <1>3, <1>4, <1>7, PartsTyped DEF Summary, Moved, OwnTypes

\* An answer that brings a token puts it in the jar; the others leave the jar or
\* empty it.
LEMMA AnsweredSummary ==
  ASSUME SessionInv, NEW f \in Flow, Answered(f)
  PROVE  Summary
<1>1. /\ Typed(flow[f]) /\ TabOf[f] \in Tab
      /\ flow[f].given \in Cookie /\ jar \in Cookie /\ access[TabOf[f]] \in BOOLEAN
      /\ flow[f].answer # "ok" => flow[f].given = NoToken
      /\ flow[f].call \notin {"login", "refresh"} => flow[f].given = NoToken
  BY FlowTyped, NothingGiven
<1>2. UNCHANGED <<storeVars, late, faults, answered, lost, reused, misread>>
  BY DEF Answered, StatusAnswered, RefreshAnswered, LoginAnswered, MeAnswered,
         LogoutAnswered, ApiAnswered, history
<1>3. Recorded
  BY <1>2, QuietStep
<1> DEFINE Goes(a) == Typed(a) /\ a.given = NoToken /\ Goto(f, a)
           Tabs == /\ access' \in [Tab -> BOOLEAN]
                   /\ state' \in [Tab -> {"closed", "loading", "guest", "authed"}]
                   /\ loggedOut' \in SUBSET Tab
           Goal == \E a : /\ Goes(a) /\ a.cookie \in {NoToken, jar'}
                          /\ jar' \in {jar, NoToken, flow[f].given} \cap Cookie
                          /\ flow[f].given \in {NoToken, jar'}
<1>4. ASSUME NEW op \in {"initialize", "recover"}, Goto(f, Sent(op, "refresh", jar, FALSE)),
             jar' = jar, flow[f].given = NoToken
      PROVE  Goal
  BY <1>1, <1>4, SentTyped, CallsTyped
<1>5. ASSUME Goto(f, Idle), jar' \in {jar, NoToken}, flow[f].given = NoToken
      PROVE  Goal
  BY <1>1, <1>5, PartsTyped
<1>6. ASSUME TakeTokens(f), flow[f].call \in {"login", "refresh"}
      PROVE  Goal
  <2>1. flow[f].op \in Op \cup {"none"} /\ "me" \in CallsOf(flow[f].op)
    BY <1>1, <1>6 DEF Typed, Activation, CallsOf, Op
  <2> QED
    BY <1>1, <1>6, <2>1, SentTyped DEF TakeTokens
<1>7. loggedOut' \in SUBSET Tab
  BY <1>1, PartsTyped DEF OwnTypes, Answered, StatusAnswered, RefreshAnswered,
         LoginAnswered, MeAnswered, LogoutAnswered, ApiAnswered, history
<1>8. BecomeGuest(TabOf[f]) \/ BecomeAuthed(TabOf[f]) \/ UNCHANGED tabVars => Tabs
  BY <1>1, <1>7, TabStep
<1>9. TakeTokens(f) => Tabs
  BY <1>1, <1>7, PartsTyped DEF TakeTokens, OwnTypes
<1>10. Goal /\ Tabs
  <2>1. CASE StatusAnswered(f)
    BY <1>1, <1>4, <1>5, <1>8, <2>1 DEF StatusAnswered, Answers
  <2>2. CASE RefreshAnswered(f)
    BY <1>1, <1>5, <1>6, <1>8, <1>9, <2>2 DEF RefreshAnswered, Answers
  <2>3. CASE LoginAnswered(f)
    BY <1>6, <1>9, <2>3 DEF LoginAnswered, Answers
  <2>4. CASE MeAnswered(f)
    BY <1>1, <1>5, <1>8, <2>4 DEF MeAnswered, Answers
  <2>5. CASE LogoutAnswered(f)
    BY <1>1, <1>4, <1>5, <1>8, <2>5 DEF LogoutAnswered, Answers
  <2>6. CASE ApiAnswered(f)
    <3>1. Tabs
      BY <1>7, <2>6, PartsTyped DEF ApiAnswered, OwnTypes
    <3> QED
      BY <1>1, <1>4, <1>5, <2>6, <3>1 DEF ApiAnswered, Answers
  <2> QED
    BY <2>1, <2>2, <2>3, <2>4, <2>5, <2>6 DEF Answered
<1>11. PICK a : /\ Goes(a) /\ a.cookie \in {NoToken, jar'}
                /\ jar' \in {jar, NoToken, flow[f].given} \cap Cookie
                /\ flow[f].given \in {NoToken, jar'}
  BY <1>10
<1>12. /\ Left /\ flow' \in [Flow -> Activation]
       /\ \A g \in Flow : flow'[g].call \in CallsOf(flow'[g].op)
  BY <1>2, <1>11, LeftStep, PartsTyped
<1> QED
  BY <1>2, <1>3, <1>10, <1>11, <1>12, PartsTyped DEF Summary, Moved, OwnTypes

\* Only a login and a refresh are answered with a token, the one just drawn.
LEMMA ServeSummary ==
  ASSUME SessionInv, NEW f \in Flow, Serve(f) \/ ServeBlindly(f)
  PROVE  Summary
<1>1. /\ StoreTypeOK /\ Typed(flow[f])
      /\ flow[f].cookie \in answered \cup {NoToken} /\ answered \subseteq Token
      /\ IsCarried(flow[f].cookie)
  BY FlowTyped DEF SessionInv, TypeOK, StoreTypeOK, IsCarried
<1>2. flow[f].given = NoToken
  BY NothingGiven DEF Serve, ServeLogin, ServeRefresh, ServeStatus, ServeLogout,
                      ServeAuthorized, ServeBlindly, Asked
<1>3. /\ UNCHANGED <<jar, tabVars, late, lost, loggedOut>>
      /\ misread => misread'
      /\ faults' \in 0 .. MaxFaults /\ misread' \in BOOLEAN
  <2>1. CASE Serve(f)
    <3>1. UNCHANGED <<jar, tabVars, late, lost, loggedOut, faults, misread>>
      BY <2>1 DEF Serve, ServeLogin, ServeRefresh, ServeStatus, ServeLogout,
                  ServeAuthorized
    <3> QED
      BY <3>1, PartsTyped DEF OwnTypes
  <2>2. CASE ServeBlindly(f)
    BY <2>2, HappensTyped DEF ServeBlindly
  <2> QED
    BY <2>1, <2>2
<1> DEFINE Gives(answer, given) ==
             /\ Answer(f, answer, given)
             /\ answer \in {"ok", "canRefresh", "refused"} /\ given \in Cookie
             /\ given # NoToken =>
                  /\ answer = "ok" /\ flow[f].call \in {"login", "refresh"}
                  /\ given \in Token \ drawn /\ store'[given].replacedBy = NoToken
           Goal == Recorded /\ \E answer, given : Gives(answer, given)
<1>4. ASSUME NEW answer \in {"ok", "canRefresh", "refused"}, Answer(f, answer, NoToken)
      PROVE  answered' = answered /\ \E a, given : Gives(a, given)
  <2>1. Gives(answer, NoToken)
    BY <1>4 DEF Cookie
  <2> QED
    BY <1>4, <2>1 DEF Answer
<1>5. ASSUME Answer(f, "ok", Fresh), flow[f].call \in {"login", "refresh"},
             Fresh \in Token \ drawn, store'[Fresh].replacedBy = NoToken
      PROVE  /\ answered' = answered \cup {Fresh} /\ flow'[f].given = Fresh
             /\ \E a, given : Gives(a, given)
  <2>1. Gives("ok", Fresh)
    BY <1>5 DEF Cookie
  <2>2. Fresh # NoToken
    BY <1>5, NoTokenAssumption
  <2>3. flow[f] \in Activation /\ flow' = [flow EXCEPT ![f] =
          [flow[f] EXCEPT !.answer = "ok", !.given = Fresh]]
    BY <1>1, <1>5 DEF Typed, Answer, Goto
  <2>4. flow'[f].given = Fresh
    BY <2>3 DEF SessionInv, TypeOK, Activation
  <2> QED
    BY <1>5, <2>1, <2>2, <2>4 DEF Answer
<1>6. ASSUME UNCHANGED <<storeVars, reused>>,
             \E answer \in {"ok", "canRefresh", "refused"} : Answer(f, answer, NoToken)
      PROVE  Goal
  BY <1>3, <1>4, <1>6, QuietStep
<1>7. Goal
  <2>1. CASE ServeLogin(f)
    <3>1. /\ Fresh \in Token \ drawn /\ store'[Fresh].replacedBy = NoToken
          /\ Answer(f, "ok", Fresh) /\ flow[f].call \in {"login", "refresh"}
      BY <1>1, <2>1, LoginEffect, NewRecordFields DEF ServeLogin, Asked
    <3> QED
      BY <1>3, <1>5, <2>1, <3>1 DEF ServeLogin, Recorded
  <2>2. CASE ServeRefresh(f)
    <3> DEFINE t == flow[f].cookie
    <3>1. CASE Rotate(t) /\ Answer(f, "ok", Fresh) /\ UNCHANGED reused
      <4>1. /\ Fresh \in Token \ drawn /\ Usable(t)
            /\ store'[Fresh] = NewRecord(store[t].family)
        BY <1>1, <3>1, RotateEffect
      <4>2. /\ store'[Fresh].replacedBy = NoToken
            /\ flow[f].call \in {"login", "refresh"}
        BY <2>2, <4>1, NewRecordFields DEF ServeRefresh, Asked
      <4>3. t \in answered
        BY <1>1, <4>1, NoTokenAssumption DEF Usable, Active, Known
      <4> QED
        BY <1>1, <1>3, <1>5, <3>1, <4>1, <4>2, <4>3 DEF Recorded
    <3>2. CASE /\ RevokeReused(t)
               /\ Answer(f, "refused", NoToken)
               /\ reused' = reused \cup {store[t].family}
      <4>1. t \in Token
        BY <3>2 DEF RevokeReused, Active, Known
      <4> QED
        BY <1>3, <1>4, <3>2, <4>1 DEF Recorded
    <3>3. CASE RefuseRefresh(t) /\ Answer(f, "refused", NoToken) /\ UNCHANGED reused
      BY <1>6, <3>3 DEF RefuseRefresh
    <3> QED
      BY <2>2, <3>1, <3>2, <3>3 DEF ServeRefresh
  <2>3. CASE ServeStatus(f)
    BY <1>6, <2>3 DEF ServeStatus
  <2>4. CASE ServeLogout(f)
    <3> DEFINE t == flow[f].cookie
    <3>1. CASE Revoke(t) /\ Answer(f, "ok", NoToken)
      <4>1. UNCHANGED reused
        BY <2>4 DEF ServeLogout
      <4>2. t \in Token \/ UNCHANGED storeVars
        BY <3>1 DEF Revoke, Known, storeVars
      <4> QED
        BY <1>3, <1>4, <3>1, <4>1, <4>2 DEF Recorded
    <3>2. CASE UNCHANGED storeVars /\ Answer(f, "refused", NoToken)
      BY <1>6, <2>4, <3>2 DEF ServeLogout
    <3> QED
      BY <2>4, <3>1, <3>2 DEF ServeLogout
  <2>5. CASE ServeAuthorized(f)
    BY <1>6, <2>5 DEF ServeAuthorized
  <2>6. CASE ServeBlindly(f)
    <3> DEFINE t == flow[f].cookie
    <3>1. misread' /\ UNCHANGED reused
      BY <2>6 DEF ServeBlindly
    <3>2. CASE Asked(f, "login") /\ LoginBlind /\ Answer(f, "ok", Fresh)
      <4>1. Draw /\ store' = WithFresh(Empty, Fresh) /\ Fresh \in Token
        BY <1>1, <3>2, FreshIsNew DEF LoginBlind, Draw
      <4>2. /\ Fresh \in Token \ drawn /\ store'[Fresh].replacedBy = NoToken
        BY <1>1, <4>1, BlindEffect, NewRecordFields
      <4> QED
        BY <1>3, <1>5, <3>1, <3>2, <4>2 DEF Recorded, Asked
    <3>3. CASE Asked(f, "refresh") /\ RotateBlind(t) /\ Answer(f, "ok", Fresh)
      <4>1. /\ Draw /\ store' = WithFresh(Empty, store[t].family)
            /\ store[t].family \in Token /\ t \in Token
        BY <1>1, <3>3, KnownRecord DEF RotateBlind, Usable, Active
      <4>2. /\ Fresh \in Token \ drawn /\ store'[Fresh].replacedBy = NoToken
        BY <1>1, <4>1, BlindEffect, NewRecordFields
      <4> QED
        BY <1>3, <1>5, <3>1, <3>3, <4>1, <4>2 DEF Recorded, Asked
    <3>4. CASE Asked(f, "refresh") /\ RotateCut(t) /\ Answer(f, "ok", Fresh)
      <4>1. /\ Fresh \in Token \ drawn /\ t \in Token
            /\ store'[Fresh] = NewRecord(store[t].family)
        BY <1>1, <3>4, RotateCutEffect DEF Usable, Active, Known
      <4>2. store'[Fresh].replacedBy = NoToken
        BY <4>1, NewRecordFields
      <4> QED
        BY <1>3, <1>5, <3>1, <3>4, <4>1, <4>2 DEF Recorded, Asked
    <3>5. CASE UNCHANGED storeVars /\ \/ Answer(f, "refused", NoToken)
                                      \/ Answer(f, "ok", NoToken)
      BY <1>6, <3>1, <3>5
    <3> QED
      BY <2>6, <3>2, <3>3, <3>4, <3>5 DEF ServeBlindly
  <2> QED
    BY <2>1, <2>2, <2>3, <2>4, <2>5, <2>6 DEF Serve
<1>8. PICK answer, given : Gives(answer, given)
  BY <1>7
<1>9. /\ Served(f) /\ flow' \in [Flow -> Activation]
      /\ \A g \in Flow : flow'[g].call \in CallsOf(flow'[g].op)
  BY <1>2, <1>3, <1>8, ServedStep
<1> QED
  BY <1>3, <1>7, <1>9, PartsTyped DEF Summary, Moved, OwnTypes, tabVars

\* What Thrown does to the tab of an activation.
LEMMA ThrownTyped ==
  ASSUME SessionInv, NEW f \in Flow, Thrown(f)
  PROVE  /\ access' \in [Tab -> BOOLEAN]
         /\ state' \in [Tab -> {"closed", "loading", "guest", "authed"}]
         /\ loggedOut' \in SUBSET Tab
<1>1. TabOf[f] \in Tab
  BY FlowTyped
<1>2. BecomeGuest(TabOf[f]) \/ UNCHANGED tabVars
  BY DEF Thrown
<1>3. loggedOut' \in SUBSET Tab
  BY <1>1, PartsTyped DEF Thrown, OwnTypes
<1> QED
  BY <1>1, <1>2, <1>3, TabStep

\* An activation that fails ends; a token it was given is lost.
LEMMA FailureSummary ==
  ASSUME SessionInv, NEW f \in Flow, NetworkError(f) \/ RequestLate(f) \/ ServerDies(f)
  PROVE  Summary
<1>1. /\ Typed(flow[f]) /\ flow[f].cookie \in Cookie
      /\ flow[f].given \in answered \cup {NoToken}
      /\ flow[f].answer = "none" => flow[f].given = NoToken
  BY FlowTyped, NothingGiven
<1>2. /\ access' \in [Tab -> BOOLEAN]
      /\ state' \in [Tab -> {"closed", "loading", "guest", "authed"}]
      /\ loggedOut' \in SUBSET Tab
      /\ faults' \in 0 .. MaxFaults
      /\ Goto(f, Idle) /\ UNCHANGED <<jar, answered, reused, misread>>
  BY ThrownTyped, HappensTyped DEF NetworkError, RequestLate, ServerDies
<1>3. Recorded
  <2>1. ASSUME NEW t, RotateCut(t) PROVE t \in Token
    BY <2>1 DEF RotateCut, Usable, Active, Known
  <2>2. UNCHANGED storeVars \/ RotateCut(flow[f].cookie)
    BY DEF NetworkError, RequestLate, ServerDies
  <2> QED
    BY <1>2, <2>1, <2>2 DEF Recorded
<1>4. /\ \A r \in late' : r \in late \/ r.cookie = flow[f].cookie
      /\ late' \in SUBSET [call : {"refresh", "logout"}, cookie : Cookie]
  <2>1. CASE late' = late
    BY <2>1, PartsTyped DEF OwnTypes
  <2>2. CASE RequestLate(f)
    <3> DEFINE r == [call |-> flow[f].call, cookie |-> flow[f].cookie]
    <3>1. r \in [call : {"refresh", "logout"}, cookie : Cookie] /\ late' = late \cup {r}
      BY <1>1, <2>2 DEF RequestLate, Asked
    <3> QED
      BY <3>1, PartsTyped DEF OwnTypes
  <2> QED
    BY <2>1, <2>2 DEF NetworkError, ServerDies
<1>5. /\ flow[f].given \in {NoToken} \cup lost'
      /\ lost \subseteq lost' /\ lost' \subseteq answered'
  <2>1. CASE NetworkError(f)
    BY <1>1, <1>2, <2>1, PartsTyped DEF NetworkError, Abandoned
  <2>2. CASE RequestLate(f) \/ ServerDies(f)
    BY <1>1, <1>2, <2>2, PartsTyped DEF RequestLate, ServerDies, Asked
  <2> QED
    BY <2>1, <2>2
<1>6. /\ Left /\ flow' \in [Flow -> Activation]
      /\ \A g \in Flow : flow'[g].call \in CallsOf(flow'[g].op)
  BY <1>2, <1>4, <1>5, LeftStep, PartsTyped
<1> QED
  BY <1>2, <1>3, <1>4, <1>6, PartsTyped DEF Summary, Moved, OwnTypes

\* Reloading a tab ends everything in it.
LEMMA ReloadSummary ==
  ASSUME SessionInv, NEW f \in Flow, Reload(f)
  PROVE  Summary
<1> DEFINE first == Sent("initialize", "status", jar, FALSE)
           dropped == {g \in Flow : TabOf[g] = TabOf[f]}
<1>1. /\ UNCHANGED <<storeVars, jar, late, answered, reused, misread>>
      /\ faults' \in 0 .. MaxFaults
      /\ flow' = [g \in Flow |-> IF g = f THEN first ELSE
                                 IF g \in dropped THEN Idle ELSE flow[g]]
      /\ lost' = lost \cup ({flow[g].given : g \in dropped} \ {NoToken})
      /\ TabOf[f] \in Tab /\ f \in dropped
  BY FlowTyped, HappensTyped DEF Reload, Abandoned
<1>2. Typed(first) /\ first.given = NoToken /\ first.cookie = jar
  <2>1. "initialize" \in Op /\ "status" \in CallsOf("initialize") /\ jar \in Cookie
    BY FlowTyped, CallsTyped
  <2> QED
    BY <2>1, SentTyped
<1>3. /\ access' \in [Tab -> BOOLEAN]
      /\ state' \in [Tab -> {"closed", "loading", "guest", "authed"}]
      /\ loggedOut' \in SUBSET Tab
  BY <1>1, PartsTyped DEF Reload, OwnTypes
<1> HIDE DEF first
<1>4. /\ flow' \in [Flow -> Activation]
      /\ \A g \in Flow : flow'[g].call \in CallsOf(flow'[g].op)
  BY <1>1, <1>2, PartsTyped DEF OwnTypes, Typed
<1>5. lost \subseteq lost' /\ lost' \subseteq answered'
  BY <1>1, FlowTyped, PartsTyped
<1>6. Left
  <2>1. ASSUME NEW g \in Flow
        PROVE  \/ flow'[g] = flow[g]
               \/ /\ flow'[g].given = NoToken /\ flow'[g].cookie \in {NoToken, jar'}
                  /\ flow[g].given \in {NoToken, jar'} \cup lost'
    BY <1>1, <1>2, PartsTyped
  <2> QED
    BY <1>1, <1>5, <2>1 DEF Left
<1>7. Recorded
  BY <1>1, QuietStep
<1> QED
  BY <1>1, <1>3, <1>4, <1>6, <1>7, PartsTyped DEF Summary, Moved, OwnTypes

\* A late request is served like any other; its answer is lost.
LEMMA LateSummary ==
  ASSUME SessionInv, NEW r \in late, LateArrives(r)
  PROVE  Summary
<1> DEFINE t == r.cookie
<1>1. /\ UNCHANGED <<jar, tabVars, flow, faults, misread, loggedOut>>
      /\ late' \subseteq late /\ StoreTypeOK
      /\ IsCarried(t) /\ t \in Cookie
  BY PartsTyped DEF LateArrives, SessionInv, TypeOK, OwnTypes, IsCarried
<1>2. t \in Token => t \in answered
  BY <1>1 DEF SessionInv, CarriedIsAnswered
<1>3. Recorded /\ lost \subseteq lost' /\ lost' \subseteq answered'
  <2>1. CASE /\ Rotate(t) /\ answered' = answered \cup {Fresh}
             /\ lost' = lost \cup {Fresh} /\ UNCHANGED reused
    <3>1. t \in Token
      BY <2>1 DEF Rotate, Usable, Active, Known
    <3> QED
      BY <1>1, <1>2, <2>1, <3>1, PartsTyped DEF Recorded
  <2>2. CASE /\ RevokeReused(t) /\ reused' = reused \cup {store[t].family}
             /\ UNCHANGED <<answered, lost>>
    <3>1. t \in Token
      BY <2>2 DEF RevokeReused, Active, Known
    <3> QED
      BY <1>1, <2>2, <3>1, PartsTyped DEF Recorded
  <2>3. CASE RefuseRefresh(t) /\ UNCHANGED <<answered, lost, reused>>
    BY <1>1, <2>3, QuietStep, PartsTyped DEF RefuseRefresh
  <2>4. CASE Revoke(t) /\ UNCHANGED <<answered, lost, reused>>
    <3>1. t \in Token \/ UNCHANGED storeVars
      BY <2>4 DEF Revoke, Known, storeVars
    <3> QED
      BY <1>1, <2>4, <3>1, PartsTyped DEF Recorded
  <2> QED
    BY <2>1, <2>2, <2>3, <2>4 DEF LateArrives
<1>4. Left
  BY <1>1, <1>3 DEF Left
<1> QED
  BY <1>1, <1>3, <1>4, PartsTyped DEF Summary, Moved, OwnTypes, tabVars

\* The passing of time marks one record or takes one access token.
LEMMA TimeSummary ==
  ASSUME SessionInv,
         \/ \E t \in Token : TokenExpires(t)
         \/ \E tab \in Tab : AccessExpires(tab)
         \/ UNCHANGED vars
  PROVE  Summary
<1>1. /\ UNCHANGED <<jar, state, flow, late, history>>
      /\ UNCHANGED storeVars \/ \E t \in Token : Expire(t)
  BY DEF TokenExpires, AccessExpires, vars, tabVars
<1>2. Recorded
  BY <1>1 DEF Recorded, history
<1>3. faults' \in 0 .. MaxFaults
  BY HappensTyped, PartsTyped DEF TokenExpires, AccessExpires, vars, OwnTypes
<1>4. access' \in [Tab -> BOOLEAN]
  BY PartsTyped DEF TokenExpires, AccessExpires, vars, tabVars, OwnTypes
<1>5. Left
  BY <1>1, PartsTyped DEF Left, history
<1> QED
  BY <1>1, <1>2, <1>3, <1>4, <1>5, PartsTyped DEF Summary, Moved, OwnTypes, history

\* Every step of the specification has a summary.
LEMMA StepSummary ==
  ASSUME SessionInv, [Next]_vars
  PROVE  Summary
BY BeginSummary, ServeSummary, AnsweredSummary, FailureSummary, ReloadSummary,
   LateSummary, TimeSummary
   DEF Next, GoWrong

-----------------------------------------------------------------------------
(* Theorems                                                                *)

\* Before anything happens there are no tokens.
LEMMA SessionInit == Init => SessionInv
<1> SUFFICES ASSUME Init
             PROVE  SessionInv
  OBVIOUS
<1>1. \A t \in Token : store[t] = NoRecord /\ ~Known(t)
  BY DEF Init, StoreInit, Known
<1>2. /\ \A f \in Flow : Typed(flow[f]) /\ flow[f].given = NoToken /\ flow[f].cookie = NoToken
      /\ flow \in [Flow -> Activation]
  BY IdleTyped DEF Init, Typed
<1>3. TypeOK
  <2>1. StoreTypeOK
    BY <1>1 DEF Init, StoreInit, StoreTypeOK
  <2>2. faults \in 0 .. MaxFaults
    BY BoundAssumption DEF Init
  <2> QED
    BY <1>2, <2>1, <2>2 DEF Init, TypeOK, Typed, Cookie
<1>4. CarriedIsAnswered
  BY <1>2, NoTokenAssumption DEF Init, CarriedIsAnswered, IsCarried
<1>5. GivenIsNew
  BY <1>2 DEF GivenIsNew
<1>6. ReusedFamilyIsDead /\ OneUsableToken /\ JarIsCurrent /\ FamiliesAreDrawn
  BY <1>1 DEF Init, ReusedFamilyIsDead, OneUsableToken, JarIsCurrent,
              FamiliesAreDrawn, Known
<1> QED
  BY <1>3, <1>4, <1>5, <1>6 DEF SessionInv

\* The invariant is inductive.
LEMMA SessionStep == SessionInv /\ [Next]_vars => SessionInv'
<1> SUFFICES ASSUME SessionInv, [Next]_vars
             PROVE  SessionInv'
  OBVIOUS
<1>1. Recorded /\ Moved /\ OwnTypes'
  BY StepSummary DEF Summary
<1>2. TypeOK /\ FamiliesAreDrawn
  BY DEF SessionInv
<1>3. answered \subseteq answered'
  BY <1>1 DEF Recorded
<1>4. StoreTypeOK' /\ FamiliesAreDrawn' /\ answered' \subseteq drawn' /\ reused' \subseteq drawn'
  BY <1>1, <1>2, RecordedIsStoreStep, DrawnKept
<1>5. lost' \subseteq answered'
  BY <1>1, <1>3, PartsTyped DEF Moved, Left, Served
<1>6. TypeOK'
  BY <1>1, <1>4, <1>5 DEF TypeOK, OwnTypes
<1> QED
  BY <1>1, <1>3, <1>4, <1>6, ReusedKept, OneUsableKept, CarriedKept, GivenKept, JarKept
     DEF SessionInv

\* SessionInv holds in every reachable state.
THEOREM SessionInvariant == Spec => []SessionInv
BY SessionInit, SessionStep, PTL DEF Spec

\* Every variable keeps its type.
THEOREM TypeCorrect == Spec => []TypeOK
<1>1. SessionInv => TypeOK
  BY DEF SessionInv
<1> QED
  BY <1>1, SessionInvariant, PTL

\* Once revoke_family has run for a family, none of its tokens is ever accepted.
THEOREM ReusedFamiliesStayDead == Spec => []ReusedFamilyIsDead
<1>1. SessionInv => ReusedFamilyIsDead
  BY DEF SessionInv
<1> QED
  BY <1>1, SessionInvariant, PTL

\* However the requests of the tabs interleave and the server dies, at most one
\* of the tokens answered for a login is accepted by /auth/refresh.
THEOREM OneTokenPerLogin == Spec => []OneUsableToken
<1>1. SessionInv => OneUsableToken
  BY DEF SessionInv
<1> QED
  BY <1>1, SessionInvariant, PTL

\* The cookie of the browser is superseded only by a token that is on its way
\* to the browser or was lost on the way.
THEOREM CookieIsCurrent == Spec => []JarIsCurrent
<1>1. SessionInv => JarIsCurrent
  BY DEF SessionInv
<1> QED
  BY <1>1, SessionInvariant, PTL

\* A token that /auth/refresh does not accept any more is never accepted again,
\* even if the store was misread in between.
THEOREM TokensOnlyDie == Spec => UnusableStaysUnusable
<1>1. ASSUME SessionInv, [Next]_vars
      PROVE  \A t \in drawn : ~Usable(t) => ~Usable(t)'
  <2>1. StoreTypeOK /\ StoreStep
    BY <1>1, StepSummary, RecordedIsStoreStep DEF Summary, SessionInv
  <2> QED
    BY <2>1, StoreStepKeepsUnusable
<1> QED
  BY <1>1, SessionInvariant, PTL DEF Spec, UnusableStaysUnusable
=============================================================================
