------------------------------ MODULE Contact ------------------------------
(***************************************************************************)
(* What the two members of a match do with it: calls (call_service.go,     *)
(* call_repository.go, handlers/call), date requests (chat_service.go) and *)
(* the block that ends it, behind the middleware chain of cmd/api/main.go: *)
(* access token, call quota, device attestation, handler.                  *)
(*                                                                         *)
(* It composes what other modules detail: a quota check and a purchase are *)
(* one step each (CallAllowance, which Premium implements), and the hub    *)
(* delivers a signal or loses it (Sessions, which Hub implements).         *)
(***************************************************************************)
EXTENDS Integers, FiniteSets

CONSTANTS
  Members,     \* the two users of the match
  Requests,
  Kind,        \* "initiate" and "accept" a call, "date" request, "block"
  Asker,       \* the user in the request's access token
  NoBlock,     \* "no transaction has deleted the match"
  FreeCalls

ASSUME ContactConstants ==
  /\ \E u, v \in Members : u # v /\ Members = {u, v}
  /\ Kind \in [Requests -> {"initiate", "accept", "date", "block"}]
  /\ Asker \in [Requests -> Members]
  /\ NoBlock \notin Requests
  /\ FreeCalls \in Nat

VARIABLES
  matched,   \* the match row is there
  deleting,  \* the block whose open transaction has deleted it
  stored,    \* date requests in messages
  paid,      \* members with premium_expires_at > now
  flag,      \* members with is_premium
  left,      \* free calls left of the month
  pc,
  saw,       \* members a request has read as premium
  heard,     \* requests with a signal that was delivered
  late, paying, unpaid  \* history, see the properties

rows    == <<matched, deleting, stored>>
users   == <<paid, flag, left>>
history == <<late, paying, unpaid>>
vars    == <<rows, users, pc, saw, heard, history>>

Ended == {"done", "refused", "unpaid"}
States == Ended \cup {"new", "arrived", "through", "attested", "valid", "told",
                      "found", "half", "read", "allowed", "inserted", "deleted"}

TypeOK ==
  /\ matched \in BOOLEAN
  /\ deleting \in Requests \cup {NoBlock}
  /\ stored \subseteq Requests
  /\ paid \subseteq Members /\ flag \subseteq Members
  /\ left \in [Members -> 0..FreeCalls]
  /\ pc \in [Requests -> States]
  /\ saw \in [Requests -> SUBSET Members]
  /\ heard \subseteq Requests
  /\ late \subseteq Requests /\ paying \subseteq Requests
  /\ unpaid \in [Requests -> SUBSET Members]

\* Any two members; on paid time, off it, or off it with the flag still up.
Init ==
  /\ matched = TRUE
  /\ deleting = NoBlock
  /\ stored = {}
  /\ paid \in SUBSET Members
  /\ flag \in {f \in SUBSET Members : paid \subseteq f}
  /\ left = [u \in Members |-> FreeCalls]
  /\ pc = [r \in Requests |-> "new"]
  /\ saw = [r \in Requests |-> {}]
  /\ heard = {}
  /\ late = {} /\ paying = {}
  /\ unpaid = [r \in Requests |-> {}]

IsCall(r) == Kind[r] \in {"initiate", "accept"}
Other(r)  == CHOOSE u \in Members : u # Asker[r]
Go(r, from, to) == pc[r] = from /\ pc' = [pc EXCEPT ![r] = to]

\* The access token is good: the request is served, by main.go's route.
Arrive(r) ==
  /\ Go(r, "new", "arrived")
  /\ late' = IF matched THEN late ELSE late \cup {r}
  /\ unpaid' = IF Kind[r] = "date" THEN [unpaid EXCEPT ![r] = Members \ paid] ELSE unpaid
  /\ UNCHANGED <<rows, users, saw, heard, paying>>

----------------------------------------------------------------------------
(* A call: quota, attestation, handler.                                    *)

\* Mutation: the flag stays up when a call is counted.
OnFreeCall_KeepsFlag(r) ==
  /\ Asker[r] \notin paid
  /\ left[Asker[r]] > 0
  /\ left' = [left EXCEPT ![Asker[r]] = @ - 1]
  /\ UNCHANGED <<paid, flag, paying>>

OnFreeCall(r) ==
  /\ Asker[r] \notin paid
  /\ left[Asker[r]] > 0
  /\ left' = [left EXCEPT ![Asker[r]] = @ - 1]
  /\ flag' = flag \ {Asker[r]}
  /\ UNCHANGED <<paid, paying>>

OnPaidTime(r) ==
  /\ Asker[r] \in paid
  /\ paying' = paying \cup {r}
  /\ UNCHANGED users

\* Mutation: only the call that is initiated is counted.
Quota_InitiateOnly(r) ==
  /\ IsCall(r)
  /\ Go(r, "arrived", "through")
  /\ \/ Kind[r] = "initiate" /\ (OnPaidTime(r) \/ OnFreeCall(r))
     \/ Kind[r] = "accept" /\ UNCHANGED <<users, paying>>
  /\ UNCHANGED <<rows, saw, heard, late, unpaid>>

\* quotaMW: before anything else is known of the call.
Quota(r) ==
  /\ IsCall(r)
  /\ Go(r, "arrived", "through")
  /\ OnPaidTime(r) \/ OnFreeCall(r)
  /\ UNCHANGED <<rows, saw, heard, late, unpaid>>

\* 403 of the quota: nothing is written.  (Stop has the other refusals.)
Refuse(r) ==
  /\ IsCall(r)
  /\ Asker[r] \notin paid
  /\ left[Asker[r]] = 0
  /\ Go(r, "arrived", "refused")
  /\ UNCHANGED <<rows, users, saw, heard, history>>

\* deviceMW: Google or Apple vouch for the device, within their 5 seconds.
Attest(r) ==
  /\ Go(r, "through", "attested")
  /\ UNCHANGED <<rows, users, saw, heard, history>>

\* Mutation: the handler trusts a match id it was given once.
ValidateMatchAndRoles_Cached(r) ==
  /\ Go(r, "attested", "valid")
  /\ saw' = [saw EXCEPT ![r] = flag]
  /\ UNCHANGED <<rows, users, heard, history>>

\* One statement reads the match and both flags: who asks becomes the caller, and
\* the tokens' lifetimes go by the flags.
ValidateMatchAndRoles(r) ==
  /\ matched
  /\ Go(r, "attested", "valid")
  /\ saw' = [saw EXCEPT ![r] = flag]
  /\ UNCHANGED <<rows, users, heard, history>>

\* AcceptCall: the token of u lives for TokenTTLPrem.
LongToken(r, u) == u \in saw[r]

\* hub.SendToUser: lost if the member has no connection.
SendToUser(r) == heard' \in {heard, heard \cup {r}}

\* incoming_call to the other side.
Initiate(r) ==
  /\ Kind[r] = "initiate"
  /\ Go(r, "valid", "done")
  /\ SendToUser(r)
  /\ saw' = [saw EXCEPT ![r] = {}]
  /\ UNCHANGED <<rows, users, history>>

\* call_accepted to the one who accepts, then to the other; both tokens are in the
\* answer to the first.
Accept(r) ==
  /\ Kind[r] = "accept"
  /\ Go(r, "valid", "told")
  /\ SendToUser(r)
  /\ UNCHANGED <<rows, users, saw, history>>

AcceptOther(r) ==
  /\ Go(r, "told", "done")
  /\ SendToUser(r)
  /\ saw' = [saw EXCEPT ![r] = {}]
  /\ UNCHANGED <<rows, users, history>>

----------------------------------------------------------------------------
(* A date request: a transaction of four statements.                       *)

Idle == <<heard, history>>

FindMatch(r) ==
  /\ Kind[r] = "date"
  /\ matched
  /\ Go(r, "arrived", "found")
  /\ UNCHANGED <<rows, users, saw, Idle>>

\* is_premium and premium_expires_at, of the sender and then of the other.
Premium(u) == {u} \cap flag \cap paid

ReadSender(r) ==
  /\ Go(r, "found", "half")
  /\ saw' = [saw EXCEPT ![r] = Premium(Asker[r])]
  /\ UNCHANGED <<rows, users, Idle>>

ReadOther(r) ==
  /\ Go(r, "half", "read")
  /\ saw' = [saw EXCEPT ![r] = @ \cup Premium(Other(r))]
  /\ UNCHANGED <<rows, users, Idle>>

\* now := time.Now(), and the condition on both.
NeedsPremium(r) ==
  /\ saw[r] = {}
  /\ Go(r, "read", "unpaid")
  /\ UNCHANGED <<rows, users, saw, Idle>>

HasPremium(r) ==
  /\ saw[r] # {}
  /\ Go(r, "read", "allowed")
  /\ saw' = [saw EXCEPT ![r] = {}]
  /\ UNCHANGED <<rows, users, Idle>>

\* Mutation: messages without the foreign key.
InsertMessage_NoForeignKey(r) ==
  /\ Go(r, "allowed", "inserted")
  /\ UNCHANGED <<rows, users, saw, Idle>>

\* The foreign key waits for a transaction that has deleted the match.
InsertMessage(r) ==
  /\ deleting = NoBlock
  /\ matched
  /\ Go(r, "allowed", "inserted")
  /\ UNCHANGED <<rows, users, saw, Idle>>

CommitMessage(r) ==
  /\ Go(r, "inserted", "done")
  /\ stored' = stored \cup {r}
  /\ UNCHANGED <<matched, deleting, users, saw, Idle>>

----------------------------------------------------------------------------
(* A block, as far as the match goes.                                      *)

\* DELETE FROM matches waits for another block's, and for the share a message's
\* foreign key holds.
DeleteMatch(r) ==
  /\ Kind[r] = "block"
  /\ deleting = NoBlock
  /\ \A d \in Requests : pc[d] # "inserted"
  /\ Go(r, "arrived", "deleted")
  /\ deleting' = r
  /\ UNCHANGED <<matched, stored, users, saw, Idle>>

\* The messages of the match go with it: ON DELETE CASCADE.
CommitBlock(r) ==
  /\ Go(r, "deleted", "done")
  /\ matched' = FALSE
  /\ stored' = {}
  /\ deleting' = NoBlock
  /\ UNCHANGED <<users, saw, Idle>>

----------------------------------------------------------------------------
(* The members and the server.                                             *)

UnderWay(r) == pc[r] \notin Ended \cup {"new"}

\* Mutation: the purchase leaves the flag to a later login.
Buy_NoFlag(u) ==
  /\ u \notin paid
  /\ paid' = paid \cup {u}
  /\ paying' = paying \cup {r \in Requests : UnderWay(r) /\ IsCall(r) /\ Asker[r] = u}
  /\ UNCHANGED <<rows, flag, left, pc, saw, heard, late, unpaid>>

\* VerifyAndActivateSubscription
Buy(u) ==
  /\ u \notin paid
  /\ paid' = paid \cup {u}
  /\ flag' = flag \cup {u}
  /\ paying' = paying \cup {r \in Requests : UnderWay(r) /\ IsCall(r) /\ Asker[r] = u}
  /\ UNCHANGED <<rows, left, pc, saw, heard, late, unpaid>>

\* premium_expires_at passes, the flag stays; a date request that has read it as
\* the future compares it with a later clock.
Expire(u) ==
  /\ u \in paid
  /\ paid' = paid \ {u}
  /\ saw' = [r \in Requests |-> IF Kind[r] = "date"
                                  THEN saw[r] \ {u} ELSE saw[r]]
  /\ unpaid' = [r \in Requests |-> IF UnderWay(r) /\ Kind[r] = "date"
                                     THEN unpaid[r] \cup {u} ELSE unpaid[r]]
  /\ UNCHANGED <<rows, flag, left, pc, heard, late, paying>>

\* A handler ends early wherever it stands: no attestation, no such match, a
\* statement's error, a client that went away; or, with every other request under
\* way, because the server died.  Its transaction rolls back.
Stop(r) ==
  /\ UnderWay(r)
  /\ pc' = [pc EXCEPT ![r] = "refused"]
  /\ saw' = [saw EXCEPT ![r] = {}]
  /\ deleting' = IF deleting = r THEN NoBlock ELSE deleting
  /\ UNCHANGED <<matched, stored, users, heard, history>>

CallNext(r) ==
  \/ Quota(r) \/ Attest(r) \/ ValidateMatchAndRoles(r) \/ Refuse(r)
  \/ Initiate(r) \/ Accept(r) \/ AcceptOther(r)
DateNext(r) ==
  \/ FindMatch(r) \/ ReadSender(r) \/ ReadOther(r) \/ NeedsPremium(r)
  \/ HasPremium(r) \/ InsertMessage(r) \/ CommitMessage(r)
BlockNext(r) == DeleteMatch(r) \/ CommitBlock(r)

Next ==
  \/ \E r \in Requests : Arrive(r) \/ CallNext(r) \/ DateNext(r) \/ BlockNext(r) \/ Stop(r)
  \/ \E u \in Members : Buy(u) \/ Expire(u)

Spec == Init /\ [][Next]_vars

----------------------------------------------------------------------------
(* Properties.                                                             *)

\* No message outlives its match, whichever of the insert and the block waits for
\* the other, and none is written into a match being deleted.
MessagesHaveMatch ==
  /\ stored # {} => matched
  /\ \A r \in Requests : pc[r] = "inserted" => matched /\ deleting = NoBlock

\* A block is final: a request that arrives after its commit (late) rings nobody,
\* gets no tokens and stores no message.
BlockIsFinal ==
  \A r \in late :
    /\ r \notin stored
    /\ r \notin heard
    /\ IsCall(r) => pc[r] # "done"

\* call_repository.go reads is_premium alone.  For the one who asks, the quota
\* check just before makes that right: the longer token lifetime means paid time
\* at some moment since (paying), or none was used.
AskerTokenFitsPremium ==
  \A r \in Requests :
    pc[r] \in {"valid", "told"} /\ IsCall(r) /\ LongToken(r, Asker[r])
      => r \in paying

\* What rings is paid for or counted: a member without paid time reaches the other
\* side with no more calls and accepts than the month grants included.
QuotaCoversSignals ==
  \A u \in Members :
    LET rung == {r \in heard : Asker[r] = u /\ r \notin paying}
    IN  Cardinality(rung) <= FreeCalls - left[u]

\* chat_service.go:23: a date request is refused for want of premium only if each
\* side was without paid time at some moment of the request (unpaid), although the
\* sides are read one after the other and quota checks clear flags meanwhile.
UnpaidForAReason ==
  \A r \in Requests : pc[r] = "unpaid" => unpaid[r] = Members
=============================================================================
