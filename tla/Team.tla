-------------------------------- MODULE Team --------------------------------
(***************************************************************************)
(* How people come into an organisation and leave it                       *)
(* (app/routers/team.py, signup in app/routers/auth.py): an admin invites  *)
(* an email address, whoever has the link accepts it, and accounts are     *)
(* found by their email address over all organisations.                    *)
(*                                                                         *)
(* A request is a READ COMMITTED transaction: it sees what is committed    *)
(* when a statement begins, holds the rows it has written until it ends,   *)
(* and a statement that needs such a row waits and then looks again.       *)
(* Roles, names and who invited whom are not told apart.                   *)
(***************************************************************************)
EXTENDS Naturals

CONSTANTS
    Invites,        \* rows of org_invites, by id and so by token
    Emails,
    TeamRequests,   \* requests in progress at a time
    Own,            \* an account that signed up, with an organisation of its own
    NoAccount, NoInvite, NoEmail

ASSUME TeamAssumption ==
    /\ {Own, NoAccount, NoInvite} \cap Invites = {}
    /\ Own # NoAccount
    /\ NoEmail \notin Emails

VARIABLES
    invite,     \* of each row: unsent, pending, accepted or gone
    expired,    \* invites past expires_at
    sentTo,     \* email of each invite
    account,    \* users: how the account of an email address came about
    at,         \* where each request is
    on, who,    \* its invite and its email address
    made        \* accounts made of each invite (history)

rowVars  == <<invite, expired, sentTo, account>>
teamVars == <<rowVars, at, on, who, made>>

Claiming == {"claimed", "vacant", "inserted"}
Places   == Claiming \cup {"idle", "found", "signing", "mailing", "cancelling", "removing"}

TeamTypeOK ==
    /\ invite \in [Invites -> {"unsent", "pending", "accepted", "gone"}]
    /\ expired \subseteq Invites
    /\ sentTo \in [Invites -> Emails \cup {NoEmail}]
    /\ account \in [Emails -> Invites \cup {Own, NoAccount}]
    /\ at \in [TeamRequests -> Places]
    /\ on \in [TeamRequests -> Invites \cup {NoInvite}]
    /\ who \in [TeamRequests -> Emails \cup {NoEmail}]
    /\ made \in [Invites -> Nat]

TeamInit ==
    /\ invite = [i \in Invites |-> "unsent"]
    /\ expired = {}
    /\ sentTo = [i \in Invites |-> NoEmail]
    /\ account \in [Emails -> {Own, NoAccount}]
    /\ at = [r \in TeamRequests |-> "idle"]
    /\ on = [r \in TeamRequests |-> NoInvite]
    /\ who = [r \in TeamRequests |-> NoEmail]
    /\ made = [i \in Invites |-> 0]

----------------------------------------------------------------------------
Starts(r, place, i, e) ==
    /\ at[r] = "idle"
    /\ at' = [at EXCEPT ![r] = place]
    /\ on' = [on EXCEPT ![r] = i]
    /\ who' = [who EXCEPT ![r] = e]

Goes(r, place) == at' = [at EXCEPT ![r] = place] /\ UNCHANGED <<on, who>>

\* The transaction ends; what it wrote is committed by the caller, or gone.
Over(r) ==
    /\ at' = [at EXCEPT ![r] = "idle"]
    /\ on' = [on EXCEPT ![r] = NoInvite]
    /\ who' = [who EXCEPT ![r] = NoEmail]

\* Rows another transaction has written.
InviteFree(r, i) ==
    \A q \in TeamRequests \ {r} : on[q] = i => at[q] \notin Claiming \cup {"cancelling"}
EmailFree(r, e) ==
    \A q \in TeamRequests \ {r} : who[q] = e => at[q] \notin {"inserted", "removing"}

----------------------------------------------------------------------------
(* invite_member, cancel_invite, remove_member *)

\* The address has no account in this organisation; the row is inserted, and the
\* transaction stays open while the mail goes out.
Draft(r, i, e) ==
    /\ invite[i] = "unsent"
    /\ \A q \in TeamRequests : on[q] # i
    /\ account[e] \notin Invites
    /\ Starts(r, "mailing", i, e)
    /\ UNCHANGED <<rowVars, made>>

\* A mail that fails is ignored.
Post(r) ==
    /\ at[r] = "mailing"
    /\ invite' = [invite EXCEPT ![on[r]] = "pending"]
    /\ sentTo' = [sentTo EXCEPT ![on[r]] = who[r]]
    /\ Over(r)
    /\ UNCHANGED <<expired, account, made>>

\* The row goes whether or not it was accepted meanwhile.
Cancel(r, i) ==
    /\ invite[i] \in {"pending", "accepted"}
    /\ InviteFree(r, i)
    /\ Starts(r, "cancelling", i, sentTo[i])
    /\ UNCHANGED <<rowVars, made>>

Cancelled(r) ==
    /\ at[r] = "cancelling"
    /\ invite' = [invite EXCEPT ![on[r]] = "gone"]
    /\ Over(r)
    /\ UNCHANGED <<expired, sentTo, account, made>>

\* A member the team page lists.
Remove(r, e) ==
    /\ account[e] \in Invites
    /\ EmailFree(r, e)
    /\ Starts(r, "removing", NoInvite, e)
    /\ UNCHANGED <<rowVars, made>>

Removed(r) ==
    /\ at[r] = "removing"
    /\ account' = [account EXCEPT ![who[r]] = NoAccount]
    /\ Over(r)
    /\ UNCHANGED <<invite, expired, sentTo, made>>

\* The seven days are over.
Expire(i) ==
    /\ invite[i] = "pending" /\ i \notin expired
    /\ expired' = expired \cup {i}
    /\ UNCHANGED <<invite, sentTo, account, at, on, who, made>>

----------------------------------------------------------------------------
(* accept_invite, and signup from the look for an account on *)

\* Step 1: the invite is read, without a lock.
FindInvite(r, i) ==
    /\ invite[i] = "pending" /\ i \notin expired
    /\ Starts(r, "found", i, sentTo[i])
    /\ UNCHANGED <<rowVars, made>>

\* Variant: the update does not ask for accepted_at IS NULL.
ClaimAgain(r) ==
    /\ at[r] = "found" /\ InviteFree(r, on[r])
    /\ IF invite[on[r]] # "gone" THEN Goes(r, "claimed") ELSE Over(r)
    /\ UNCHANGED <<rowVars, made>>

\* Variant: what the update returns is not looked at.
ClaimUnseen(r) ==
    /\ at[r] = "found" /\ InviteFree(r, on[r])
    /\ Goes(r, "claimed")
    /\ UNCHANGED <<rowVars, made>>

\* Step 3: the invite is claimed if it is there and still not accepted.
Claim(r) ==
    /\ at[r] = "found" /\ InviteFree(r, on[r])
    /\ IF invite[on[r]] = "pending" THEN Goes(r, "claimed") ELSE Over(r)
    /\ UNCHANGED <<rowVars, made>>

SignUp(r, e) == Starts(r, "signing", NoInvite, e) /\ UNCHANGED <<rowVars, made>>

\* An account of that address, of whatever organisation, is a 409, and with it
\* the claim is rolled back.
LookForAccount(r) ==
    /\ at[r] \in {"claimed", "signing"}
    /\ IF account[who[r]] = NoAccount THEN Goes(r, "vacant") ELSE Over(r)
    /\ UNCHANGED <<rowVars, made>>

\* The insert waits for one of the same address and fails if that is committed.
InsertUser(r) ==
    /\ at[r] = "vacant" /\ EmailFree(r, who[r])
    /\ IF account[who[r]] = NoAccount THEN Goes(r, "inserted") ELSE Over(r)
    /\ UNCHANGED <<rowVars, made>>

\* The commit: account and acceptance at once.
Join(r) ==
    /\ at[r] = "inserted"
    /\ IF on[r] = NoInvite
       THEN /\ account' = [account EXCEPT ![who[r]] = Own]
            /\ UNCHANGED <<invite, made>>
       ELSE /\ account' = [account EXCEPT ![who[r]] = on[r]]
            /\ invite' = [invite EXCEPT ![on[r]] = "accepted"]
            /\ made' = [made EXCEPT ![on[r]] = @ + 1]
    /\ Over(r)
    /\ UNCHANGED <<expired, sentTo>>

\* Any error rolls the transaction back, one that breaks a deadlock too.
RollBack(r) ==
    /\ at[r] # "idle"
    /\ Over(r)
    /\ UNCHANGED <<rowVars, made>>

----------------------------------------------------------------------------
AdminStep(r) ==
    \/ \E i \in Invites : Cancel(r, i) \/ \E e \in Emails : Draft(r, i, e)
    \/ \E e \in Emails : Remove(r, e)
    \/ Post(r) \/ Cancelled(r) \/ Removed(r)

GuestStep(r) ==
    \/ \E i \in Invites : FindInvite(r, i)
    \/ \E e \in Emails : SignUp(r, e)
    \/ Claim(r) \/ LookForAccount(r) \/ InsertUser(r) \/ Join(r)

TeamNext ==
    \/ \E r \in TeamRequests : AdminStep(r) \/ GuestStep(r) \/ RollBack(r)
    \/ \E i \in Invites : Expire(i)

TeamSpec == TeamInit /\ [][TeamNext]_teamVars

----------------------------------------------------------------------------
(* Properties *)

\* An invite is marked accepted exactly when an account was made of it, and makes
\* one account at most: whoever clicks the link, twice, at once, after the member
\* was removed, or for an address that signed up meanwhile (team.py:302-372).
InvitesHonest ==
    \A i \in Invites :
        /\ made[i] <= 1
        /\ invite[i] = "accepted" => made[i] = 1
        /\ invite[i] \in {"unsent", "pending"} => made[i] = 0

\* After the answer to a cancellation nobody joins by that invite any more, not
\* even who had opened it before (team.py:246-258, 338-350).
CancelHolds ==
    [][\A i \in Invites : invite[i] = "gone" => made'[i] = made[i]]_teamVars
=============================================================================
