-------------------------------- MODULE Accounts --------------------------------
(***************************************************************************)
(* Signing in (http.ts) and the account behind a login                     *)
(* (managed-identity.ts): a wallet signs a challenge, or a code sent by    *)
(* email is typed in; the first login provisions a Circle wallet.          *)
(* Challenges, codes and sessions live in the memory of the process and    *)
(* end with it; identities and wallet records are stored.  Time is         *)
(* abstract: what has a time to live may expire at any moment.             *)
(***************************************************************************)
EXTENDS Integers, FiniteSets

CONSTANTS Addresses,    \* who signs in with a wallet
          Emails,       \* who signs in with an email code
          Logins,       \* login requests in flight at most
          Guesses,      \* OTP_MAX_ATTEMPTS
          AuthEntries,  \* MAX_AUTH_ENTRIES, OTP_MAX_ENTRIES
          MaxProofs,    \* bound: challenges and codes issued
          MaxRestarts,  \* bound: ends of the process
          NoOne         \* no identity

Identities == Addresses \cup Emails

ASSUME AccountsAssumption ==
    /\ Addresses \cap Emails = {} /\ NoOne \notin Identities
    /\ Guesses \in Nat \ {0} /\ AuthEntries \in Nat \ {0}
    /\ MaxProofs \in Nat /\ MaxRestarts \in Nat

VARIABLES issued,        \* challenges and codes issued so far; each is named by its number
          challenges,    \* HttpApi.challenges: the nonce an address is to sign, or 0
          codes,         \* emailChallenges: the code of an email and its attempts, 0 for none
          mailing,       \* codes sendLoginCode has not answered for
          login,         \* the login requests in flight
          sessions,      \* HttpApi.sessions, by identity and the proof each was opened with
          opened,        \* how often a proof opened a session
          tried,         \* how often a code was guessed
          identities,    \* auth-identities
          wallets,       \* circle-wallets
          archived,      \* circle-wallets-legacy
          provisioning,  \* the provisioning map: where provisionWallet is
          circle,        \* the SCA wallets Circle has for a user, by the key of their creation
          keys,          \* idempotency keys drawn for a user
          restarts       \* ends of the process so far

authVars == <<issued, challenges, codes, mailing, sessions, opened, tried>>
walletVars == <<wallets, archived, provisioning, circle, keys>>
accountVars == <<authVars, walletVars, login, identities, restarts>>

Proofs == 1..MaxProofs
NoCode == [code |-> 0, attempts |-> 0]
NoLogin == [pc |-> "idle", who |-> NoOne, proof |-> 0]
NoWallet == [type |-> "NONE", state |-> "ABSENT", key |-> 0]
OldWallet == [type |-> "EOA", state |-> "READY", key |-> 0]

AccountsTypeOK ==
    /\ issued \in 0..MaxProofs
    /\ challenges \in [Addresses -> 0..MaxProofs]
    /\ codes \in [Emails -> [code : 0..MaxProofs, attempts : 0..(Guesses - 1)]]
    /\ mailing \subseteq Emails \X Proofs
    /\ login \in [Logins -> [pc : {"idle", "verifying", "waiting", "ready"},
                             who : Identities \cup {NoOne}, proof : 0..MaxProofs]]
    /\ sessions \subseteq Identities \X Proofs /\ opened \in [Proofs -> Nat] /\ tried \in [Proofs -> Nat]
    /\ identities \subseteq Identities /\ archived \subseteq Identities
    /\ wallets \in [Identities -> [type : {"NONE", "EOA", "SCA"}, key : Nat,
                                   state : {"ABSENT", "PENDING", "READY", "FAILED"}]]
    /\ provisioning \in [Identities -> {"idle", "listing", "creating", "made"}]
    /\ circle \in [Identities -> SUBSET Nat] /\ keys \in [Identities -> Nat]
    /\ restarts \in 0..MaxRestarts

-----------------------------------------------------------------------------
(* The managed wallet. *)

Ready(i) == wallets[i].type = "SCA" /\ wallets[i].state = "READY"

InFlight(i) == provisioning[i] # "idle"

\* Mutant of KeyFor: an attempt after a failure is a new request to Circle.
KeyForAttempt(i) == keys[i] + 1
\* A record of an SCA keeps its key, whatever became of the attempt before.
KeyFor(i) == IF wallets[i].type = "SCA" THEN wallets[i].key ELSE keys[i] + 1

\* ensureWallet, and provisionWallet up to its await: an older EOA is set aside, and the
\* record is stored PENDING before Circle is asked.
EnsureWallet(i) ==
    IF Ready(i) \/ InFlight(i) THEN UNCHANGED walletVars
    ELSE /\ archived' = IF wallets[i].type = "EOA" THEN archived \cup {i} ELSE archived
         /\ wallets' = [wallets EXCEPT ![i] = [type |-> "SCA", state |-> "PENDING", key |-> KeyFor(i)]]
         /\ keys' = [keys EXCEPT ![i] = IF KeyFor(i) > @ THEN KeyFor(i) ELSE @]
         /\ provisioning' = [provisioning EXCEPT ![i] = "listing"]
         /\ UNCHANGED circle

\* createWallet looks for a wallet made before; Circle may not list it yet.
FindWallet(i) ==
    /\ provisioning[i] = "listing"
    /\ \E seen \in {{}, circle[i]} :
          /\ Cardinality(seen) <= 1
          /\ provisioning' = [provisioning EXCEPT ![i] = IF seen = {} THEN "creating" ELSE "made"]
    /\ UNCHANGED <<authVars, wallets, archived, circle, keys, login, identities, restarts>>

\* Circle creates one wallet per idempotency key.
CreateWallet(i) ==
    /\ provisioning[i] = "creating"
    /\ circle' = [circle EXCEPT ![i] = @ \cup {wallets[i].key}]
    /\ provisioning' = [provisioning EXCEPT ![i] = "made"]
    /\ UNCHANGED <<authVars, wallets, archived, keys, login, identities, restarts>>

Waiting(i) == {r \in Logins : login[r].pc = "waiting" /\ login[r].who = i}

\* The wallet is stored and every login that waits for it goes on.
WalletReady(i) ==
    /\ provisioning[i] = "made"
    /\ \E made \in circle[i] :
          wallets' = [wallets EXCEPT ![i] = [type |-> "SCA", state |-> "READY", key |-> made]]
    /\ provisioning' = [provisioning EXCEPT ![i] = "idle"]
    /\ login' = [r \in Logins |-> IF r \in Waiting(i) THEN [login[r] EXCEPT !.pc = "ready"] ELSE login[r]]
    /\ UNCHANGED <<authVars, archived, circle, keys, identities, restarts>>

\* A call to Circle fails, before or after it took effect: the record is FAILED and the
\* logins that wait are refused.
WalletFails(i) ==
    /\ InFlight(i)
    /\ wallets' = [wallets EXCEPT ![i].state = "FAILED"]
    /\ provisioning' = [provisioning EXCEPT ![i] = "idle"]
    /\ login' = [r \in Logins |-> IF r \in Waiting(i) THEN NoLogin ELSE login[r]]
    /\ UNCHANGED <<authVars, archived, circle, keys, identities, restarts>>

\* login, of an identity that was just proved.
EnterAccount(r, i, n) ==
    /\ identities' = identities \cup {i}
    /\ EnsureWallet(i)
    /\ login' = [login EXCEPT ![r] = [pc |-> IF Ready(i) THEN "ready" ELSE "waiting",
                                      who |-> i, proof |-> n]]

-----------------------------------------------------------------------------
(* Signing in with a wallet. *)

\* POST /api/auth/challenge: a new nonce takes the place of the one before.
Challenge(a) ==
    /\ issued < MaxProofs /\ issued' = issued + 1
    /\ challenges[a] # 0 \/ Cardinality({c \in Addresses : challenges[c] # 0}) < AuthEntries
    /\ challenges' = [challenges EXCEPT ![a] = issued']
    /\ UNCHANGED <<codes, mailing, sessions, opened, tried, walletVars, login, identities, restarts>>

\* What is left of the nonce when its signature is looked at.
Spent(a) == 0

\* verify up to the check of the signature.
VerifyWallet(r, a) ==
    /\ login[r].pc = "idle" /\ challenges[a] # 0
    /\ challenges' = [challenges EXCEPT ![a] = Spent(a)]
    /\ login' = [login EXCEPT ![r] = [pc |-> "verifying", who |-> a, proof |-> challenges[a]]]
    /\ UNCHANGED <<issued, codes, mailing, sessions, opened, tried, walletVars, identities, restarts>>

SignatureRight(r) ==
    /\ login[r].pc = "verifying"
    /\ EnterAccount(r, login[r].who, login[r].proof)
    /\ UNCHANGED <<authVars, restarts>>

SignatureWrong(r) ==
    /\ login[r].pc = "verifying"
    /\ login' = [login EXCEPT ![r] = NoLogin]
    /\ UNCHANGED <<authVars, walletVars, identities, restarts>>

-----------------------------------------------------------------------------
(* Signing in with a code. *)

\* requestEmailCode: a new code starts with no attempts, before it is sent.
RequestEmailCode(e) ==
    /\ issued < MaxProofs /\ issued' = issued + 1
    /\ codes[e] # NoCode \/ Cardinality({c \in Emails : codes[c] # NoCode}) < AuthEntries
    /\ codes' = [codes EXCEPT ![e] = [code |-> issued', attempts |-> 0]]
    /\ mailing' = mailing \cup {<<e, issued'>>}
    /\ UNCHANGED <<challenges, sessions, opened, tried, walletVars, login, identities, restarts>>

CodeSent(m) ==
    /\ m \in mailing /\ mailing' = mailing \ {m}
    /\ UNCHANGED <<issued, challenges, codes, sessions, opened, tried, walletVars, login, identities, restarts>>

\* A code that could not be sent is forgotten, and so is one asked for since.
CodeNotSent(m) ==
    /\ m \in mailing /\ mailing' = mailing \ {m}
    /\ codes' = [codes EXCEPT ![m[1]] = NoCode]
    /\ UNCHANGED <<issued, challenges, sessions, opened, tried, walletVars, login, identities, restarts>>

\* Mutant of LastGuess: one attempt too many.
AfterLastGuess(n) == n > Guesses
LastGuess(n) == n >= Guesses

\* loginEmail with a wrong code: the last attempt forgets the code.
GuessWrong(e) ==
    LET n == codes[e].attempts + 1
    IN  /\ codes[e] # NoCode /\ codes[e].attempts < Guesses
        /\ codes' = [codes EXCEPT ![e] = IF LastGuess(n) THEN NoCode ELSE [@ EXCEPT !.attempts = n]]
        /\ tried' = [tried EXCEPT ![codes[e].code] = @ + 1]
        /\ UNCHANGED <<issued, challenges, mailing, sessions, opened, walletVars, login, identities, restarts>>

\* loginEmail with the code: it is forgotten before the account is opened.
LoginEmail(r, e) ==
    /\ login[r].pc = "idle" /\ codes[e] # NoCode /\ codes[e].attempts < Guesses
    /\ codes' = [codes EXCEPT ![e] = NoCode]
    /\ tried' = [tried EXCEPT ![codes[e].code] = @ + 1]
    /\ EnterAccount(r, e, codes[e].code)
    /\ UNCHANGED <<issued, challenges, mailing, sessions, opened, restarts>>

-----------------------------------------------------------------------------
(* Sessions. *)

\* createSession, refused when the map is full: the proof is spent all the same.
CreateSession(r) ==
    /\ login[r].pc = "ready"
    /\ IF Cardinality(sessions) < AuthEntries
       THEN /\ sessions' = sessions \cup {<<login[r].who, login[r].proof>>}
            /\ opened' = [opened EXCEPT ![login[r].proof] = @ + 1]
       ELSE UNCHANGED <<sessions, opened>>
    /\ login' = [login EXCEPT ![r] = NoLogin]
    /\ UNCHANGED <<issued, challenges, codes, mailing, tried, walletVars, identities, restarts>>

\* Logout, or the end of a time to live (pruneAuthMaps, pruneEmailChallenges).
EndSession(s) ==
    /\ sessions' = sessions \ {s}
    /\ UNCHANGED <<issued, challenges, codes, mailing, opened, tried, walletVars, login, identities, restarts>>

ExpireChallenge(a) ==
    /\ challenges[a] # 0 /\ challenges' = [challenges EXCEPT ![a] = 0]
    /\ UNCHANGED <<issued, codes, mailing, sessions, opened, tried, walletVars, login, identities, restarts>>

\* Its time to live is over, or a malformed code was handed in.
ExpireCode(e) ==
    /\ codes[e] # NoCode /\ codes' = [codes EXCEPT ![e] = NoCode]
    /\ UNCHANGED <<issued, challenges, mailing, sessions, opened, tried, walletVars, login, identities, restarts>>

\* The process ends: what it held in memory and what it awaited is gone.
Restart ==
    /\ restarts < MaxRestarts /\ restarts' = restarts + 1
    /\ challenges' = [a \in Addresses |-> 0]
    /\ codes' = [e \in Emails |-> NoCode]
    /\ mailing' = {} /\ sessions' = {}
    /\ login' = [r \in Logins |-> NoLogin]
    /\ provisioning' = [i \in Identities |-> "idle"]
    /\ UNCHANGED <<issued, opened, tried, wallets, archived, circle, keys, identities>>

AccountsInit ==
    /\ issued = 0
    /\ challenges = [a \in Addresses |-> 0]
    /\ codes = [e \in Emails |-> NoCode]
    /\ mailing = {} /\ sessions = {}
    /\ login = [r \in Logins |-> NoLogin]
    /\ opened = [n \in Proofs |-> 0] /\ tried = [n \in Proofs |-> 0]
    /\ wallets \in [Identities -> {NoWallet, OldWallet}]
    /\ identities = {i \in Identities : wallets[i] = OldWallet}
    /\ archived = {}
    /\ provisioning = [i \in Identities |-> "idle"]
    /\ circle = [i \in Identities |-> {}]
    /\ keys = [i \in Identities |-> 0]
    /\ restarts = 0

AddressStep(a) == Challenge(a) \/ ExpireChallenge(a) \/ \E r \in Logins : VerifyWallet(r, a)
EmailStep(e) == \/ RequestEmailCode(e) \/ GuessWrong(e) \/ ExpireCode(e)
                \/ \E r \in Logins : LoginEmail(r, e)
MailStep == \E m \in mailing : CodeSent(m) \/ CodeNotSent(m)
LoginStep(r) == SignatureRight(r) \/ SignatureWrong(r) \/ CreateSession(r)
WalletStep(i) == FindWallet(i) \/ CreateWallet(i) \/ WalletReady(i) \/ WalletFails(i)

AccountsNext ==
    \/ \E a \in Addresses : AddressStep(a)
    \/ \E e \in Emails : EmailStep(e)
    \/ MailStep
    \/ \E r \in Logins : LoginStep(r)
    \/ \E i \in Identities : WalletStep(i)
    \/ \E s \in sessions : EndSession(s)
    \/ Restart

AccountsSpec == AccountsInit /\ [][AccountsNext]_accountVars

-----------------------------------------------------------------------------
(* Properties. *)

\* However often Circle is asked for a user's wallet, by logins that overlap, after a
\* failure or a restart, it makes one, and the one that is stored as READY is it; whoever
\* has a session has that wallet, and keeps it while others of the same user sign in.
OneWallet ==
    /\ \A i \in Identities :
          /\ Cardinality(circle[i]) <= 1
          /\ Ready(i) => circle[i] = {wallets[i].key}
    /\ \A s \in sessions : s[1] \in identities /\ Ready(s[1])

\* A signed challenge and a code each open one session at most, also when the same one
\* is handed in twice before the first answer, and no code is guessed at too often.
OneSessionPerProof ==
    \A n \in Proofs : opened[n] <= 1 /\ tried[n] <= Guesses

\* A session stands for one proof and one wallet.
LoginsSound == AccountsTypeOK /\ OneWallet /\ OneSessionPerProof
=============================================================================
