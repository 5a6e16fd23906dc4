------------------------------ MODULE EmailOtp ------------------------------
(* Signing in with a password and a mailed code (accounts/otp.py), and the  *)
(* changes of a registered address that cancel what was mailed before       *)
(* (accounts/email_security.py), for one account used from several browsers.*)
(* A code is the pair of its challenge and generation: the digest binds it  *)
(* to both (otp.py:88).  Mail is sent after the transaction that made the   *)
(* code, so it may be late, lost, or arrive although the sender gave up.    *)
EXTENDS Integers, Sequences, FiniteSets

CONSTANTS
    Browsers, NoBrowser,
    Addresses, NoAddress,
    FirstAddress,      \* the address verified at the start
    MaxPasswords,      \* bound: passwords the account may have in turn
    MaxChallenges,     \* bound: challenges made
    MaxResends,        \* bound: codes of one challenge
    MaxEra,            \* bound: recoveries and confirmed addresses
    MaxAttempts,       \* wrong codes of one challenge (5 in otp.py:146)
    MissLimit          \* wrong codes of one account in a window (10 in otp.py:101)

ASSUME OtpAssumption ==
    /\ NoBrowser \notin Browsers
    /\ NoAddress \notin Addresses
    /\ FirstAddress \in Addresses
    /\ {MaxPasswords, MaxChallenges, MaxResends, MaxAttempts, MissLimit} \subseteq Nat \ {0}
    /\ MaxEra \in Nat

VARIABLES
    account,       \* the account row: password, email, verified email, active
    challenges,    \* the EmailChallenge rows, oldest first
    outbox,        \* mail a request is still sending
    mailbox,       \* mail that reached its address
    session,       \* each browser's session
    typed,         \* the password a browser has just proved, 0 if none
    misses,        \* the account's SecurityThrottle counter of wrong codes
    guesses,       \* wrong codes compared with a digest in the same window
    era            \* recoveries and confirmations so far: who may still finish

otpVars == <<account, challenges, outbox, mailbox, session, typed, misses, guesses, era>>

Account == [password: 1..MaxPasswords, email: Addresses,
            verified: Addresses \cup {NoAddress}, active: BOOLEAN]

EmailIsVerified == account.email = account.verified

\* A mutant of AccountStamp: an address is contact data, not part of a proof.
StampOfPassword(a) == [password |-> a.password, active |-> a.active]

(* stamp: everything about the account a proof is bound to. *)
AccountStamp(a) == [password |-> a.password, email |-> a.email,
                    verified |-> a.verified, active |-> a.active]

NoProof == [stamp |-> AccountStamp([password |-> 1, email |-> FirstAddress,
                                    verified |-> NoAddress, active |-> FALSE]),
            recent |-> FALSE]

EmptySession == [logged |-> FALSE, proof |-> NoProof, pending |-> 0]

OtpInit ==
    /\ account = [password |-> 1, email |-> FirstAddress,
                  verified |-> FirstAddress, active |-> TRUE]
    /\ challenges = <<>>
    /\ outbox = {}
    /\ mailbox = {}
    /\ session = [b \in Browsers |-> EmptySession]
    /\ typed = [b \in Browsers |-> 0]
    /\ misses = 0
    /\ guesses = 0
    /\ era = 0

-----------------------------------------------------------------------------
(* The middleware: a signed-in request passes only with a proof that fits   *)
(* the account as it is now; an inactive account's request is anonymous.    *)

Proved(b) ==
    /\ session[b].logged
    /\ account.active
    /\ EmailIsVerified
    /\ session[b].proof.stamp = AccountStamp(account)

Served(b) == session[b].logged /\ account.active => Proved(b)

\* Logging out flushes the session: its binding is nobody's from then on.
Flush(b) ==
    /\ session' = [session EXCEPT ![b] = EmptySession]
    /\ challenges' = [c \in DOMAIN challenges |->
            IF challenges[c].browser = b THEN [challenges[c] EXCEPT !.browser = NoBrowser]
            ELSE challenges[c]]
    /\ outbox' = {[m EXCEPT !.browser = IF @ = b THEN NoBrowser ELSE @] : m \in outbox}
    /\ typed' = [typed EXCEPT ![b] = 0]

Visit(b) ==
    /\ ~Served(b)
    /\ Flush(b)
    /\ UNCHANGED <<account, mailbox, misses, guesses, era>>

SignOut(b) ==
    /\ Proved(b)
    /\ Flush(b)
    /\ UNCHANGED <<account, mailbox, misses, guesses, era>>

-----------------------------------------------------------------------------
(* Challenges. *)

Open(c) == challenges[c].state = "open"

(* pending: the challenge this browser's session waits for. *)
Pending(b) ==
    LET c == session[b].pending IN
    c # 0 /\ Open(c) /\ challenges[c].browser = b

(* _current: the challenge still fits the account and its window. *)
CurrentChallenge(c) ==
    /\ account.active
    /\ Open(c)
    /\ challenges[c].clock # "lapsed"
    /\ challenges[c].attempts < MaxAttempts
    /\ challenges[c].stamp = AccountStamp(account)

CancelThose(Chosen(_), rows) ==
    [c \in DOMAIN rows |->
        IF rows[c].state = "open" /\ Chosen(rows[c])
        THEN [rows[c] EXCEPT !.state = "cancelled"] ELSE rows[c]]

NewChallenge(purpose, b, a) ==
    [purpose |-> purpose, browser |-> b, stamp |-> AccountStamp(account), dest |-> a,
     gen |-> 1, attempts |-> 0, delivered |-> FALSE, clock |-> "fresh",
     state |-> "open", era |-> era]

MakeChallenge(purpose, b, a, Superseded(_)) ==
    /\ Len(challenges) < MaxChallenges
    /\ challenges' = Append(CancelThose(Superseded, challenges), NewChallenge(purpose, b, a))
    /\ outbox' = outbox \cup {[c |-> Len(challenges) + 1, gen |-> 1, browser |-> b]}

(* The password step: the account is read and its password checked before   *)
(* begin() locks the row and compares the two.                              *)
TypePassword(b) ==
    /\ ~session[b].logged
    /\ account.active
    /\ typed[b] = 0
    /\ typed' = [typed EXCEPT ![b] = account.password]
    /\ UNCHANGED <<account, challenges, outbox, mailbox, session, misses, guesses, era>>

BeginLogin(b) ==
    /\ typed[b] # 0
    /\ account.active /\ EmailIsVerified /\ account.password = typed[b]
    /\ LET same(row) == row.browser = b /\ row.purpose = "login"
       IN  MakeChallenge("login", b, account.email, same)
    /\ typed' = [typed EXCEPT ![b] = 0]
    /\ UNCHANGED <<account, mailbox, session, misses, guesses, era>>

RefuseLogin(b) ==
    /\ typed[b] # 0
    /\ ~(account.active /\ EmailIsVerified /\ account.password = typed[b])
    /\ typed' = [typed EXCEPT ![b] = 0]
    /\ UNCHANGED <<account, challenges, outbox, mailbox, session, misses, guesses, era>>

BeginReauth(b) ==
    /\ Proved(b)
    /\ LET same(row) == row.browser = b /\ row.purpose = "reauth"
       IN  MakeChallenge("reauth", b, account.email, same)
    /\ UNCHANGED <<account, mailbox, session, typed, misses, guesses, era>>

\* A mutant of MarkDelivered: any code's mail marks the challenge.
MarkWhicheverCode(m) ==
    challenges' = [challenges EXCEPT ![m.c].delivered = @ \/ Open(m.c)]

(* _deliver: what the provider made of the mail.  Only the code that is     *)
(* still the challenge's own is marked; the request then ends and saves the *)
(* browser's session with the challenge it waits for.                       *)
MarkDelivered(m) ==
    challenges' = [challenges EXCEPT ![m.c].delivered =
        @ \/ (challenges[m.c].gen = m.gen /\ Open(m.c))]

Deliver(m, outcome) ==
    /\ outbox' = outbox \ {m}
    /\ mailbox' = IF outcome = "failed" THEN mailbox
                  ELSE mailbox \cup {[to |-> challenges[m.c].dest, c |-> m.c, gen |-> m.gen]}
    /\ IF outcome = "accepted" THEN MarkDelivered(m) ELSE UNCHANGED challenges
    /\ session' = IF m.browser = NoBrowser THEN session
                  ELSE [session EXCEPT ![m.browser].pending = m.c]
    /\ UNCHANGED <<account, typed, misses, guesses, era>>

(* resend: a new code under the same window and the same attempts. *)
Resend(b) ==
    /\ Served(b) /\ Pending(b)
    /\ LET c == session[b].pending IN
        /\ CurrentChallenge(c)
        /\ challenges[c].gen <= MaxResends
        /\ challenges' = [challenges EXCEPT ![c].gen = @ + 1, ![c].delivered = FALSE,
                                            ![c].clock = "fresh"]
        /\ outbox' = outbox \cup {[c |-> c, gen |-> challenges[c].gen + 1, browser |-> NoBrowser]}
    /\ UNCHANGED <<account, mailbox, session, typed, misses, guesses, era>>

-----------------------------------------------------------------------------
(* verify: the order of its checks decides what is compared at all. *)

Comparable(c) ==
    /\ CurrentChallenge(c) /\ EmailIsVerified
    /\ challenges[c].delivered /\ challenges[c].clock = "fresh"
    /\ misses < MissLimit

\* A mutant of CountMiss: raising inside the transaction loses the counter.
CountAttemptOnly(c) ==
    /\ challenges' = [challenges EXCEPT ![c].attempts = @ + 1]
    /\ UNCHANGED misses

CountMiss(c) ==
    /\ challenges' = [challenges EXCEPT ![c].attempts = @ + 1]
    /\ misses' = misses + 1

VerifyWrong(b) ==
    /\ Served(b) /\ Pending(b)
    /\ Comparable(session[b].pending)
    /\ CountMiss(session[b].pending)
    /\ guesses' = guesses + 1
    /\ UNCHANGED <<account, outbox, mailbox, session, typed, era>>

VerifyRight(b, m) ==
    /\ Served(b) /\ Pending(b)
    /\ m.c = session[b].pending
    /\ Comparable(m.c)
    /\ m.gen = challenges[m.c].gen
    /\ challenges[m.c].purpose = "reauth" => session[b].logged /\ account.active
    /\ challenges' = [challenges EXCEPT ![m.c].state = "consumed"]
    /\ session' = [session EXCEPT ![b] =
            [logged |-> TRUE, pending |-> 0,
             proof |-> [stamp |-> AccountStamp(account), recent |-> TRUE]]]
    \* The session key is cycled: a request still sending cannot save into it.
    /\ outbox' = {[n EXCEPT !.browser = IF @ = b THEN NoBrowser ELSE @] : n \in outbox}
    /\ UNCHANGED <<account, mailbox, typed, misses, guesses, era>>

CancelSignIn(b) ==
    /\ Served(b)
    /\ session[b].pending # 0
    /\ challenges' = IF Pending(b) THEN [challenges EXCEPT ![session[b].pending].state = "cancelled"]
                     ELSE challenges
    /\ session' = [session EXCEPT ![b].pending = 0]
    /\ UNCHANGED <<account, outbox, mailbox, typed, misses, guesses, era>>

(* Time: five minutes of a code, the sign-in's window, five minutes of a    *)
(* proof, fifteen of the counter.                                           *)
CodeExpires(c) ==
    /\ Open(c)
    /\ \E k \in {"expired", "lapsed"} \ {challenges[c].clock} :
        /\ challenges[c].clock = "fresh" \/ k = "lapsed"
        /\ challenges' = [challenges EXCEPT ![c].clock = k]
    /\ UNCHANGED <<account, outbox, mailbox, session, typed, misses, guesses, era>>

ProofAges(b) ==
    /\ session[b].proof.recent
    /\ session' = [session EXCEPT ![b].proof.recent = FALSE]
    /\ UNCHANGED <<account, challenges, outbox, mailbox, typed, misses, guesses, era>>

MissesExpire ==
    /\ guesses > 0
    /\ misses' = 0
    /\ guesses' = 0
    /\ UNCHANGED <<account, challenges, outbox, mailbox, session, typed, era>>

-----------------------------------------------------------------------------
(* The registered address. *)

(* invitation, sent by an administrator or after a recovery. *)
Invite ==
    /\ account.active
    /\ LET same(row) == row.purpose = "enroll"
       IN  MakeChallenge("enroll", NoBrowser, account.email, same)
    /\ UNCHANGED <<account, mailbox, session, typed, misses, guesses, era>>

RequestEmailChange(b) ==
    /\ Proved(b) /\ session[b].proof.recent
    /\ \E a \in Addresses \ {account.email} :
        LET same(row) == row.purpose = "change"
        IN  MakeChallenge("change", NoBrowser, a, same)
    /\ UNCHANGED <<account, mailbox, session, typed, misses, guesses, era>>

(* invitation_valid(consume=True): the link proves its own mailbox only. *)
ConfirmInvitation(m) ==
    LET row == challenges[m.c] IN
    /\ row.purpose \in {"enroll", "change"}
    /\ CurrentChallenge(m.c) /\ row.delivered /\ row.clock = "fresh"
    /\ m.gen = row.gen
    /\ era < MaxEra
    /\ account' = [account EXCEPT !.verified = row.dest,
                                  !.email = IF row.purpose = "change" THEN row.dest ELSE @]
    /\ LET rest(r) == TRUE
       IN  challenges' = CancelThose(rest, [challenges EXCEPT ![m.c].state = "consumed"])
    /\ era' = era + 1
    /\ UNCHANGED <<outbox, mailbox, session, typed, misses, guesses>>

\* A mutant of ResetAddress: the replacement counts as verified at once.
ResetAndTrust(a) == account' = [account EXCEPT !.email = a, !.verified = a]

\* A mutant of CancelAll: what was begun before the reset stays open.
CancelNone == UNCHANGED challenges

(* recover_email: the reset stands whatever becomes of the invitation that  *)
(* follows it, which is Invite.                                             *)
ResetAddress(a) == account' = [account EXCEPT !.email = a, !.verified = NoAddress]

CancelAll ==
    LET rest(r) == TRUE IN challenges' = CancelThose(rest, challenges)

RecoverEmail(a) ==
    /\ account.active
    /\ era < MaxEra
    /\ ResetAddress(a)
    /\ CancelAll
    /\ era' = era + 1
    /\ UNCHANGED <<outbox, mailbox, session, typed, misses, guesses>>

-----------------------------------------------------------------------------
(* What else changes the account's stamp. *)

(* The password form keeps the proof of the browser it was posted from if   *)
(* that browser's proof fits the account as locked.                         *)
ChangePassword(b) ==
    /\ session[b].logged
    /\ account.active
    /\ account.password < MaxPasswords
    /\ account' = [account EXCEPT !.password = @ + 1]
    /\ session' = IF Proved(b)
                  THEN [session EXCEPT ![b].proof =
                            [stamp |-> AccountStamp([account EXCEPT !.password = @ + 1]),
                             recent |-> TRUE]]
                  ELSE session
    /\ UNCHANGED <<challenges, outbox, mailbox, typed, misses, guesses, era>>

ResetPassword ==
    /\ account.password < MaxPasswords
    /\ account' = [account EXCEPT !.password = @ + 1]
    /\ UNCHANGED <<challenges, outbox, mailbox, session, typed, misses, guesses, era>>

ToggleActive ==
    /\ account' = [account EXCEPT !.active = ~@]
    /\ UNCHANGED <<challenges, outbox, mailbox, session, typed, misses, guesses, era>>

OtpNext ==
    \/ \E b \in Browsers :
        \/ Visit(b) \/ SignOut(b) \/ TypePassword(b) \/ BeginLogin(b) \/ RefuseLogin(b)
        \/ BeginReauth(b) \/ Resend(b) \/ VerifyWrong(b) \/ CancelSignIn(b) \/ ProofAges(b)
        \/ RequestEmailChange(b) \/ ChangePassword(b)
        \/ \E m \in mailbox : VerifyRight(b, m)
    \/ \E m \in outbox, outcome \in {"accepted", "failed", "timed out"} : Deliver(m, outcome)
    \/ \E m \in mailbox : ConfirmInvitation(m)
    \/ \E c \in DOMAIN challenges : CodeExpires(c)
    \/ \E a \in Addresses : RecoverEmail(a)
    \/ MissesExpire \/ Invite \/ ResetPassword \/ ToggleActive

OtpSpec == OtpInit /\ [][OtpNext]_otpVars

-----------------------------------------------------------------------------
(* Properties. *)

Mail(c) == [to |-> challenges[c].dest, c |-> c, gen |-> challenges[c].gen]

(* Whoever is let through signed in with a code that reached the address    *)
(* the account has and has verified now, from this same browser: no change  *)
(* of address, password or standing leaves an older proof good.             *)
SessionRestsOnMailbox ==
    \A b \in Browsers : Proved(b) =>
        \E c \in DOMAIN challenges :
            /\ challenges[c].state = "consumed"
            /\ challenges[c].purpose \in {"login", "reauth"}
            /\ challenges[c].browser = b
            /\ challenges[c].dest = account.verified
            /\ Mail(c) \in mailbox

(* A challenge counts as delivered only if the code it would accept now     *)
(* reached its address: late mail of a replaced code does not mark it.      *)
DeliveredMeansThisCode ==
    \A c \in DOMAIN challenges :
        challenges[c].state # "cancelled" /\ challenges[c].delivered => Mail(c) \in mailbox

(* Within one window no more wrong codes are compared than the account's    *)
(* limit, over all its browsers and sign-ins together.                      *)
GuessesAreBounded == guesses <= MissLimit

(* An address counts as verified only if mail sent to that address was      *)
(* confirmed: neither a recovery nor a request verifies its replacement.    *)
VerifiedAddressWasReached ==
    account.verified \in Addresses \ {FirstAddress} =>
        \E c \in DOMAIN challenges :
            /\ challenges[c].state = "consumed"
            /\ challenges[c].purpose \in {"enroll", "change"}
            /\ challenges[c].dest = account.verified
            /\ Mail(c) \in mailbox

(* A recovery or a confirmed address ends whatever was begun before it,     *)
(* even if the account later looks again as it did then.                    *)
NoChallengeOutlivesRecovery ==
    [][\A c \in DOMAIN challenges :
        challenges[c].state = "open" /\ challenges'[c].state = "consumed"
            => challenges[c].era = era]_otpVars

(* What is open or verified rests on a mailbox that was really reached.     *)
MailboxesWereReached == SessionRestsOnMailbox /\ VerifiedAddressWasReached

(* A code opens only what it was mailed for, and cannot be guessed at will. *)
CodesAreBounded == DeliveredMeansThisCode /\ GuessesAreBounded
=============================================================================
