--------------------------- MODULE RefreshTokens ---------------------------
(***************************************************************************)
(* The server's refresh tokens: the file refresh_store.json that           *)
(* app/infra/token_store_json.py keeps and the operations of               *)
(* app/service/auth_service.py over it.                                    *)
(*                                                                         *)
(* Each method of the store loads the whole file, changes it and saves it. *)
(* Nothing in them waits for anything but a lock that is always free (one  *)
(* event loop), so an operation of the service is served in one step       *)
(* unless the process dies between two saves (RotateCut).                  *)
(* load() answers an empty store when the file cannot be read: the ...Blind*)
(* operators are the operations in which one of the loads went wrong.      *)
(*                                                                         *)
(* A token is one that generate_refresh_token has drawn, its record and    *)
(* its hash alike. A family is named by the token of the login it began    *)
(* with. The access tokens (JWT) are not stored.                           *)
(***************************************************************************)
EXTENDS FiniteSets

CONSTANTS
  Token,     (* the tokens that can be drawn                              *)
  NoToken,   (* None: not replaced, or no cookie                          *)
  NoRecord   (* stands for the record of a token the store does not hold  *)

VARIABLES
  store,   (* tokens: the record of each token                            *)
  drawn    (* the tokens drawn so far                                     *)

storeVars == <<store, drawn>>

Record == [family : Token, replacedBy : Token \cup {NoToken},
           revoked : BOOLEAN, expired : BOOLEAN]

ASSUME NoTokenAssumption == NoToken \notin Token
ASSUME NoRecordAssumption == NoRecord \notin Record

StoreTypeOK ==
  /\ store \in [Token -> Record \cup {NoRecord}]
  /\ drawn \in SUBSET Token
  /\ \A t \in Token \ drawn : store[t] = NoRecord

StoreInit ==
  /\ store = [t \in Token |-> NoRecord]
  /\ drawn = {}

-----------------------------------------------------------------------------
(* Records                                                                 *)

Known(t) == t \in Token /\ store[t] # NoRecord

\* _is_token_record_active.
Active(t) == Known(t) /\ ~store[t].revoked /\ ~store[t].expired

\* What /auth/refresh accepts.
Usable(t) == Active(t) /\ store[t].replacedBy = NoToken

\* secrets.token_urlsafe: never drawn before.
Fresh == CHOOSE t \in Token : t \notin drawn

NewRecord(family) ==
  [family |-> family, replacedBy |-> NoToken, revoked |-> FALSE, expired |-> FALSE]

\* The store once the fresh token is added to it.
WithFresh(tokens, family) == [tokens EXCEPT ![Fresh] = NewRecord(family)]

\* What load() answers when the file cannot be read.
Empty == [t \in Token |-> NoRecord]

Draw ==
  /\ drawn # Token
  /\ drawn' = drawn \cup {Fresh}

-----------------------------------------------------------------------------
(* login                                                                   *)

\* Mutant: the token is not drawn anew.
LoginUndrawn ==
  /\ drawn # Token
  /\ store' = WithFresh(store, Fresh)
  /\ UNCHANGED drawn

Login ==
  /\ Draw
  /\ store' = WithFresh(store, Fresh)

LoginBlind ==
  /\ Draw
  /\ store' = WithFresh(Empty, Fresh)

-----------------------------------------------------------------------------
(* refresh                                                                 *)

\* Mutant: the token given in is not marked.
RotateUnmarked(t) ==
  /\ Usable(t)
  /\ Draw
  /\ store' = WithFresh(store, store[t].family)

\* The token is exchanged for a fresh one of its family.
Rotate(t) ==
  /\ Usable(t)
  /\ Draw
  /\ store' = [WithFresh(store, store[t].family) EXCEPT ![t].replacedBy = Fresh]

\* Mutant: mark_replaced comes before add_token.
RotateCutMarked(t) ==
  /\ Usable(t)
  /\ Draw
  /\ store' = [store EXCEPT ![t].replacedBy = Fresh]

\* The process dies after add_token, before mark_replaced; or the store cannot
\* be read for mark_replaced, which then does nothing.
RotateCut(t) ==
  /\ Usable(t)
  /\ Draw
  /\ store' = WithFresh(store, store[t].family)

\* It cannot be read for add_token, and the token it is to replace is gone.
RotateBlind(t) ==
  /\ Usable(t)
  /\ Draw
  /\ store' = WithFresh(Empty, store[t].family)

\* Mutant: only the token given in is revoked.
RevokeReusedOnly(t) ==
  /\ Active(t) /\ store[t].replacedBy # NoToken
  /\ store' = [store EXCEPT ![t].revoked = TRUE]
  /\ UNCHANGED drawn

\* A token that was replaced is given in again: its family is revoked.
RevokeReused(t) ==
  /\ Active(t) /\ store[t].replacedBy # NoToken
  /\ store' = [s \in Token |->
                 IF Known(s) /\ store[s].family = store[t].family
                 THEN [store[s] EXCEPT !.revoked = TRUE]
                 ELSE store[s]]
  /\ UNCHANGED drawn

\* No token, an unknown one, or one that is not active any more. The store is
\* not written, nor is it when it cannot be read for find_by_hash or for
\* revoke_family.
RefuseRefresh(t) ==
  /\ ~Active(t)
  /\ UNCHANGED storeVars

-----------------------------------------------------------------------------
(* logout, and time                                                        *)

\* Mutant: revoking twice is not revoking.
RevokeToggled(t) ==
  /\ store' = IF Known(t) THEN [store EXCEPT ![t].revoked = ~@] ELSE store
  /\ UNCHANGED drawn

\* The token given in is revoked, whatever its state, and no other.
Revoke(t) ==
  /\ store' = IF Known(t) THEN [store EXCEPT ![t].revoked = TRUE] ELSE store
  /\ UNCHANGED drawn

\* The token's time to live has passed.
Expire(t) ==
  /\ Active(t)
  /\ store' = [store EXCEPT ![t].expired = TRUE]
  /\ UNCHANGED drawn
=============================================================================
