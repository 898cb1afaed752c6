------------------------------- MODULE SignIn -------------------------------
(***************************************************************************)
(* Who a forecast belongs to: AuthService (api/src/auth.ts), the HTTP      *)
(* handler that resolves the caller of a request (ops/src/server.ts), and  *)
(* the page (web/app/arena/page.tsx with lib/wallets.ts, lib/session.ts    *)
(* and components/ConnectWallet.tsx), in several tabs of one browser.      *)
(*                                                                         *)
(* A sign-in is four steps with the network or the wallet between them:    *)
(* challenge, signature, check, answer; its number is the nonce of its     *)
(* challenge.  The user may disconnect, reload and connect another wallet  *)
(* between any two.  The signed message may reach the server twice.  The   *)
(* server may be restarted and then remembers nothing; the browser's       *)
(* storage stays.  The calls of one forecaster about one market are alike, *)
(* so a call is who makes it and with which token.                         *)
(***************************************************************************)
EXTENDS Integers, Sequences

CONSTANTS
  Tabs, Addresses,
  Nobody,        \* no wallet, no session, no address
  ChallengeTtl, SessionTtl,
  MaxSignIns,    \* bound: sign-ins begun
  MaxCalls,      \* bound: calls made
  MaxNow,        \* bound of the clock
  MaxRestarts    \* bound: restarts of the server

VARIABLES
  now,
  signIns,       \* sign-in -> [tab, address, phase, by]; by is who signed
  challenges,    \* the server's: [nonce, issuedAt]
  checks,        \* signatures being verified: <<nonce, delivery>>
  sessions,      \* the server's: [token, address, expiresAt]
  pendingAuthAddr,
  forecasts,     \* those recorded: [user, call, at]
  tabs,          \* tab -> [wallet, session]
  stored,        \* the session in the browser's storage
  calls,         \* calls under way: [id, wallet, token]
  made,          \* calls made
  resent,        \* sign-ins whose message was delivered twice
  opened,        \* history: every session ever opened, with nonce, by and life
  life           \* restarts so far

page == <<tabs, stored>>
desk == <<challenges, checks, sessions, opened>>
signInVars == <<now, signIns, challenges, checks, sessions, pendingAuthAddr, forecasts,
          tabs, stored, calls, made, resent, opened, life>>

SignIns == DOMAIN signIns
Empty == [wallet |-> Nobody, session |-> Nobody]

SignInInit ==
  /\ now = 0 /\ signIns = <<>> /\ challenges = {} /\ checks = {} /\ sessions = {}
  /\ pendingAuthAddr = Nobody /\ forecasts = {}
  /\ tabs = [t \in Tabs |-> Empty] /\ stored = Nobody
  /\ calls = {} /\ made = 0 /\ resent = {} /\ opened = {} /\ life = 0

Over(i) == signIns' = [signIns EXCEPT ![i].phase = "over"]
To(i, phase) == signIns' = [signIns EXCEPT ![i].phase = phase]

-----------------------------------------------------------------------------
(* The page. *)

\* A wallet is chosen and connects: the page has its address, and starts to
\* sign in.  Only a page without a wallet offers the choice.
Connect(t, a) ==
  /\ tabs[t].wallet = Nobody /\ Len(signIns) < MaxSignIns
  /\ tabs' = [tabs EXCEPT ![t].wallet = a]
  /\ signIns' = Append(signIns, [tab |-> t, address |-> a, phase |-> "asking", by |-> Nobody])
  /\ UNCHANGED <<now, desk, pendingAuthAddr, forecasts, stored, calls, made, resent, life>>

\* Disconnecting clears page and storage; a sign-in under way goes on.
Disconnect(t) ==
  /\ tabs[t].wallet # Nobody
  /\ tabs' = [tabs EXCEPT ![t] = Empty]
  /\ stored' = Nobody
  /\ UNCHANGED <<now, signIns, desk, pendingAuthAddr, forecasts, calls, made, resent, life>>

\* loadSession: what storage holds, unless it has expired.
Live(s) == IF s # Nobody /\ s.expiresAt > now THEN s ELSE Nobody

\* The page is loaded again, and what it was waiting for is lost on it.
Reload(t) ==
  /\ stored' = Live(stored)
  /\ tabs' = [tabs EXCEPT ![t] = [wallet |-> Nobody, session |-> Live(stored)]]
  /\ signIns' = [i \in SignIns |->
                   IF signIns[i].tab # t THEN signIns[i]
                   ELSE [signIns[i] EXCEPT !.tab = Nobody,
                           !.phase = IF @ = "checking" THEN @ ELSE "over"]]
  /\ UNCHANGED <<now, desk, pendingAuthAddr, forecasts, calls, made, resent, life>>

\* The wallet signs the message, or the user declines.  Which of its accounts
\* signs is up to the wallet.
Sign(i, a) ==
  /\ signIns[i].phase = "wallet"
  /\ signIns' = [signIns EXCEPT ![i].phase = "signed", ![i].by = a]
  /\ UNCHANGED <<now, desk, pendingAuthAddr, forecasts, page, calls, made, resent, life>>

\* The user declines, or a request of the page gets no answer.
GivenUp(i) ==
  /\ signIns[i].phase \in {"asking", "wallet", "signed"}
  /\ Over(i)
  /\ UNCHANGED <<now, desk, pendingAuthAddr, forecasts, page, calls, made, resent, life>>

\* The answer of the check arrives: the session goes to storage and the page.
SignedIn(i) ==
  /\ signIns[i].phase = "answered"
  /\ \E s \in opened :
       /\ s.token = <<i, 1>>
       /\ LET session == [token |-> s.token, address |-> s.address, expiresAt |-> s.expiresAt]
          IN  /\ stored' = session
              /\ tabs' = [tabs EXCEPT ![signIns[i].tab].session = session]
  /\ Over(i)
  /\ UNCHANGED <<now, desk, pendingAuthAddr, forecasts, calls, made, resent, life>>

\* onForecast: under the wallet's address, with the session the page has.
Call(t) ==
  /\ tabs[t].wallet # Nobody /\ tabs[t].session # Nobody
  /\ made < MaxCalls
  /\ made' = made + 1
  /\ calls' = calls \cup {[id |-> made', wallet |-> tabs[t].wallet,
                           token |-> tabs[t].session.token]}
  /\ UNCHANGED <<now, signIns, desk, pendingAuthAddr, forecasts, page, resent, life>>

-----------------------------------------------------------------------------
(* The server. *)

\* /api/auth/nonce
Challenge(i) ==
  /\ signIns[i].phase = "asking"
  /\ challenges' = challenges \cup {[nonce |-> i, issuedAt |-> now]}
  /\ To(i, "wallet")
  /\ UNCHANGED <<now, checks, sessions, opened, pendingAuthAddr, forecasts, page, calls,
                 made, resent, life>>

Issued(i) == {c \in challenges : c.nonce = i}
InTime(c) == now - c.issuedAt <= ChallengeTtl

\* Mutant of Spent: the challenge is deleted when the signature is verified.
SpentLate(i, step) == IF step = "found" THEN challenges ELSE challenges \ Issued(i)

\* The challenges left when verify has looked one up ("found"), and when it has
\* verified the signature ("checked").
Spent(i, step) == IF step = "found" THEN challenges \ Issued(i) ELSE challenges

\* /api/auth/verify up to the await of verifyMessage, for the first delivery
\* of the message and for a second one.
Verify(i, k) ==
  /\ IF k = 1 THEN signIns[i].phase = "signed"
     ELSE signIns[i].by # Nobody /\ signIns[i].phase # "signed" /\ i \notin resent
  /\ resent' = IF k = 1 THEN resent ELSE resent \cup {i}
  /\ challenges' = Spent(i, "found")
  /\ LET found == \E c \in Issued(i) : InTime(c)
     IN  /\ checks' = IF found THEN checks \cup {<<i, k>>} ELSE checks
         /\ IF k = 1 THEN To(i, IF found THEN "checking" ELSE "over") ELSE UNCHANGED signIns
  /\ UNCHANGED <<now, sessions, opened, pendingAuthAddr, forecasts, page, calls, made, life>>

\* verifyMessage: the signer is the address the message names.
Genuine(i) == signIns[i].by = signIns[i].address

\* The rest of verify: a session, or null.
Checked(i, k) ==
  /\ <<i, k>> \in checks
  /\ checks' = checks \ {<<i, k>>}
  /\ challenges' = Spent(i, "checked")
  /\ IF Genuine(i)
     THEN LET s == [token |-> <<i, k>>, address |-> signIns[i].address,
                    expiresAt |-> now + SessionTtl]
          IN  /\ sessions' = sessions \cup {s}
              /\ opened' = opened \cup {[token |-> s.token, address |-> s.address,
                                         expiresAt |-> s.expiresAt, nonce |-> i,
                                         by |-> signIns[i].by, life |-> life]}
     ELSE UNCHANGED <<sessions, opened>>
  /\ IF k = 1 THEN To(i, IF Genuine(i) /\ signIns[i].tab # Nobody THEN "answered" ELSE "over")
     ELSE UNCHANGED signIns
  /\ UNCHANGED <<now, pendingAuthAddr, forecasts, page, calls, made, resent, life>>

\* addressFor: the sessions a token may still stand for.
Known(token) == {s \in sessions : s.token = token /\ now <= s.expiresAt}
AddressFor(token) == IF Known(token) = {} THEN Nobody
                     ELSE (CHOOSE s \in Known(token) : TRUE).address

\* Mutant of Refused: who is signed in may call under any address.
RefusedUnknown(wallet, authed) == authed = Nobody

\* takeForecast: 401 for a caller who is not signed in, 403 for one who calls
\* under an address that is not the session's.  One who names no address calls
\* under the session's.
Refused(wallet, authed) == authed = Nobody \/ (wallet # Nobody /\ wallet # authed)

\* /api/forecast.  The caller is put where every request puts its own, and
\* read from there: nothing is awaited between.  Whether a round is open, and
\* the market in it, is left open here (see Rounds).
Forecast(c) ==
  /\ calls' = calls \ {c}
  /\ pendingAuthAddr' = AddressFor(c.token)
  /\ sessions' = {s \in sessions : s.token = c.token => s \in Known(c.token)}
  /\ \/ UNCHANGED forecasts
     \/ /\ ~Refused(c.wallet, pendingAuthAddr')
        /\ forecasts' = forecasts \cup {[user |-> pendingAuthAddr', call |-> c, at |-> now]}
  /\ UNCHANGED <<now, signIns, challenges, checks, opened, page, made, resent, life>>

\* A poll of the page, which carries no token.
Poll ==
  /\ pendingAuthAddr # Nobody
  /\ pendingAuthAddr' = Nobody
  /\ UNCHANGED <<now, signIns, desk, forecasts, page, calls, made, resent, life>>

\* The server is restarted: all it knew was in memory, and whoever waits for
\* an answer gets none.
Restart ==
  /\ life < MaxRestarts
  /\ life' = life + 1
  /\ challenges' = {} /\ checks' = {} /\ sessions' = {} /\ forecasts' = {}
  /\ pendingAuthAddr' = Nobody /\ calls' = {}
  /\ signIns' = [i \in SignIns |-> IF signIns[i].phase = "checking"
                                   THEN [signIns[i] EXCEPT !.phase = "over"] ELSE signIns[i]]
  /\ UNCHANGED <<now, opened, page, made, resent>>

Elapse ==
  /\ now < MaxNow
  /\ now' = now + 1
  /\ UNCHANGED <<signIns, desk, pendingAuthAddr, forecasts, page, calls, made, resent, life>>

-----------------------------------------------------------------------------
SignInNext ==
  \/ \E t \in Tabs : Disconnect(t) \/ Reload(t) \/ Call(t)
  \/ \E t \in Tabs, a \in Addresses : Connect(t, a)
  \/ \E i \in SignIns : Challenge(i) \/ GivenUp(i) \/ SignedIn(i)
  \/ \E i \in SignIns, a \in Addresses : Sign(i, a)
  \/ \E i \in SignIns, k \in 1..2 : Verify(i, k) \/ Checked(i, k)
  \/ \E c \in calls : Forecast(c)
  \/ Poll \/ Restart \/ Elapse

SignInSpec == SignInInit /\ [][SignInNext]_signInVars

-----------------------------------------------------------------------------
\* A forecast is recorded for the address whose wallet the page had when the
\* call was made, and that wallet itself signed in, on this server since it
\* was started and not too long ago - whatever was connected, disconnected,
\* reloaded and answered late in between (auth.ts, server.ts:78-108, 271).
OwnForecasts ==
  \A f \in forecasts : \E s \in opened :
    /\ s.token = f.call.token
    /\ f.user = f.call.wallet /\ f.user = s.address /\ f.user = s.by
    /\ s.life = life /\ f.at <= s.expiresAt

\* A challenge opens one session at the most, though its message may be
\* delivered again while the first delivery is still being verified
\* (auth.ts:80, "single use, always").
OneSessionPerChallenge ==
  \A s, u \in opened : s.nonce = u.nonce => s = u
=============================================================================
