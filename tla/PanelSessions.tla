--------------------------- MODULE PanelSessions ----------------------------
(***************************************************************************)
(* The control panel's login: the session table, the login limiter and the *)
(* gate in front of every other route (algovoi_keystone_control.api).      *)
(*                                                                         *)
(* Everything here runs on one event loop, so a step is what happens       *)
(* between two awaits: `login_submit` checks the limiter, awaits the form, *)
(* and only then adds a session or records the failed attempt; the gate    *)
(* looks the session up and awaits the handler.  Tokens are random and     *)
(* never repeat; here they are numbered in the order they are issued.  A   *)
(* request that is refused for other reasons (cross-site, no csrf token,   *)
(* a wrong cookie) changes nothing.                                        *)
(***************************************************************************)
EXTENDS Integers, Sequences, FiniteSets

CONSTANTS
    Request,     \* requests that can be under way at the same time
    IP,
    MaxSessions,     \* _MAX_SESSIONS
    SessionMaxAge,   \* _SESSION_MAX_AGE
    RateWindow,      \* _LOGIN_RATE_WINDOW
    RateLimit,       \* _LOGIN_RATE_LIMIT
    MaxTrackedIPs,   \* _MAX_TRACKED_IPS
    MaxTime,         \* bound: the clock stops here
    MaxIssued        \* bound: sessions ever issued

ASSUME PanelAssumption ==
    /\ IsFiniteSet(Request)
    /\ IsFiniteSet(IP)
    /\ {MaxSessions, SessionMaxAge, RateWindow, RateLimit} \subseteq Nat \ {0}
    /\ {MaxTrackedIPs, MaxTime, MaxIssued} \subseteq Nat

VARIABLES
    now,       \* the clock
    sessions,  \* _SESSIONS: inserted in the order of their tokens
    issued,    \* how many sessions have been issued
    attempts,  \* _LOGIN_ATTEMPTS: the times of each tracked IP
    crowded,   \* history: more addresses have failed than the table holds
    failures,  \* history, until then: all failed logins, recorded or not
    req        \* where each request is

vars == <<now, sessions, issued, attempts, crowded, failures, req>>

Session == [token: Nat, exp: Nat]

Idle == [at |-> "idle"]
Form(ip) == [at |-> "form", ip |-> ip]
Handler(s) == [at |-> "handler", session |-> s, since |-> now]

Init ==
    /\ now = 0
    /\ sessions = {}
    /\ issued = 0
    /\ attempts = << >>
    /\ crowded = FALSE
    /\ failures = [ip \in IP |-> << >>]
    /\ req = [r \in Request |-> Idle]

Tick ==
    /\ now < MaxTime
    /\ now' = now + 1
    /\ UNCHANGED <<sessions, issued, attempts, crowded, failures, req>>

-----------------------------------------------------------------------------
(* The limiter *)

\* The times in the window that ends at time.
InWindow(times, time) ==
    LET kept[i \in 0 .. Len(times)] ==
            IF i = 0 THEN << >>
            ELSE IF time - times[i] < RateWindow THEN Append(kept[i - 1], times[i])
            ELSE kept[i - 1]
    IN  kept[Len(times)]

\* The attempts of ip that are still in the window.
Recent(ip) == IF ip \in DOMAIN attempts THEN InWindow(attempts[ip], now) ELSE << >>

Without(ip) == [x \in DOMAIN attempts \ {ip} |-> attempts[x]]

With(ip, times) ==
    [x \in DOMAIN attempts \cup {ip} |-> IF x = ip THEN times ELSE attempts[x]]

\* _check_rate_limit: the verdict
Allowed(ip) == Len(Recent(ip)) < RateLimit

\* _check_rate_limit: it forgets the stale attempts of ip
Prune(ip) ==
    attempts' = IF Recent(ip) # << >> THEN With(ip, Recent(ip)) ELSE Without(ip)

\* Fault: the time recorded is that of the start of the window.
RecordWindowStart(ip) ==
    attempts' = IF ip \in DOMAIN attempts
                THEN With(ip, Append(attempts[ip], now - RateWindow))
                ELSE IF Cardinality(DOMAIN attempts) >= MaxTrackedIPs THEN attempts
                ELSE With(ip, <<now - RateWindow>>)

\* Fault: the last place in the table is never given away.
RecordAttemptOneLess(ip) ==
    attempts' = IF ip \in DOMAIN attempts THEN With(ip, Append(attempts[ip], now))
                ELSE IF Cardinality(DOMAIN attempts) >= MaxTrackedIPs - 1 THEN attempts
                ELSE With(ip, <<now>>)

\* _record_attempt: in a full table a new address is not recorded
RecordAttempt(ip) ==
    attempts' = IF ip \in DOMAIN attempts THEN With(ip, Append(attempts[ip], now))
                ELSE IF Cardinality(DOMAIN attempts) >= MaxTrackedIPs THEN attempts
                ELSE With(ip, <<now>>)

\* The addresses that have failed.
Failing == {ip \in IP : failures[ip] # << >>}

\* History: a login of ip fails now.
Fail(ip) ==
    /\ crowded' = (crowded \/ Cardinality(Failing \cup {ip}) > MaxTrackedIPs)
    /\ failures' = IF crowded' THEN [x \in IP |-> << >>]
                   ELSE [failures EXCEPT ![ip] = Append(failures[ip], now)]

-----------------------------------------------------------------------------
(* The session table *)

\* _prune_sessions
Unexpired == {s \in sessions : s.exp > now}

Newer(s, ss) == {x \in ss : x.token > s.token}

\* Fault: one session more goes.
KeptTooFew(ss) == {s \in ss : Cardinality(Newer(s, ss)) < MaxSessions - 2}

\* The backstop: the oldest go, until there is room for one more.
Kept(ss) == {s \in ss : Cardinality(Newer(s, ss)) < MaxSessions - 1}

NewSession == [token |-> issued + 1, exp |-> now + SessionMaxAge]

\* Fault: no backstop.
AddSessionUnbounded ==
    /\ sessions' = Unexpired \cup {NewSession}
    /\ issued' = issued + 1

\* _add_session
AddSession ==
    /\ sessions' = Kept(Unexpired) \cup {NewSession}
    /\ issued' = issued + 1

-----------------------------------------------------------------------------
(* Routes *)

\* POST /login, up to the await: 429, or wait for the form.
LoginPost(r, ip) ==
    /\ req[r] = Idle
    /\ Prune(ip)
    /\ req' = IF Allowed(ip) THEN [req EXCEPT ![r] = Form(ip)] ELSE req
    /\ UNCHANGED <<now, sessions, issued, crowded, failures>>

\* The form is there and the password is right.
LoginSucceeds(r) ==
    /\ req[r].at = "form"
    /\ issued < MaxIssued
    /\ AddSession
    /\ req' = [req EXCEPT ![r] = Idle]
    /\ UNCHANGED <<now, attempts, crowded, failures>>

\* The form is there and the password is wrong.
LoginFails(r) ==
    /\ req[r].at = "form"
    /\ RecordAttempt(req[r].ip)
    /\ Fail(req[r].ip)
    /\ req' = [req EXCEPT ![r] = Idle]
    /\ UNCHANGED <<now, sessions, issued>>

\* The client goes away before the form is there, or a handler is done.
Leave(r) ==
    /\ req[r] # Idle
    /\ req' = [req EXCEPT ![r] = Idle]
    /\ UNCHANGED <<now, sessions, issued, attempts, crowded, failures>>

\* POST /logout with the cookie and csrf token of session s
Logout(s) ==
    /\ sessions' = sessions \ {s}
    /\ UNCHANGED <<now, issued, attempts, crowded, failures, req>>

\* Any other route with the cookie (and, if it changes something, the csrf
\* token) of a session: the gate lets it through to its handler.
Enter(r, s) ==
    /\ req[r] = Idle
    /\ req' = [req EXCEPT ![r] = Handler(s)]
    /\ UNCHANGED <<now, sessions, issued, attempts, crowded, failures>>

Next ==
    \/ Tick
    \/ \E r \in Request :
        \/ \E ip \in IP : LoginPost(r, ip)
        \/ LoginSucceeds(r) \/ LoginFails(r) \/ Leave(r)
        \/ \E s \in sessions : Enter(r, s)
    \/ \E s \in sessions : Logout(s)

Spec == Init /\ [][Next]_vars

-----------------------------------------------------------------------------
(* Properties *)

RequestState ==
    {Idle} \cup {Form(ip) : ip \in IP}
    \cup [at: {"handler"}, session: Session, since: Nat]

\* Every variable has its type.
TypeOK ==
    /\ now \in Nat
    /\ sessions \subseteq Session
    /\ issued \in Nat
    /\ DOMAIN attempts \subseteq IP
    /\ \A ip \in DOMAIN attempts : attempts[ip] \in Seq(Nat)
    /\ crowded \in BOOLEAN
    /\ failures \in [IP -> Seq(Nat)]
    /\ req \in [Request -> RequestState]

\* The tables of sessions and of addresses keep to their limits, and no token
\* is in the table twice, nor does an older session outlive a newer one.
TablesBounded ==
    /\ Cardinality(sessions) <= MaxSessions
    /\ Cardinality(DOMAIN attempts) <= MaxTrackedIPs
    /\ \A s, x \in sessions :
        /\ s.token = x.token => s = x
        /\ s.token < x.token => s.exp <= x.exp

\* A session that has not expired ends by its own logout, or when as many
\* newer ones were issued as the table holds: no other login, however
\* full the table is of expired ones, and no other logout ends it.
SessionsEndForAReason ==
    [][\A s \in sessions \ sessions' :
        \/ s.exp <= now
        \/ issued' - s.token >= MaxSessions
        \/ issued' = issued /\ sessions' = sessions \ {s}]_vars

Forms(ip) == {r \in Request : req[r] = Form(ip)}

\* How far the limiter can be overrun: the check and the record have an await
\* between them, so requests under way can all pass the check, but no more
\* than those.  The logins of an address that failed in the last window, with
\* those under way, never exceed the limit by more than one less than the
\* concurrent requests, as long as no more addresses have failed than the
\* table holds.  After that an address without an entry is neither recorded
\* nor limited (_record_attempt), be the entries stale or not: an entry goes
\* only when its own address comes back.
OverrunBounded ==
    ~crowded => \A ip \in IP :
        Len(InWindow(failures[ip], now)) + Cardinality(Forms(ip))
            < RateLimit + Cardinality(Request)

\* What the comment on the session table says, "pruned on use": a request is
\* let in on a session only before the session's expiry.
ExpiryEnforced ==
    \A r \in Request : req[r].at = "handler" => req[r].since < req[r].session.exp
=============================================================================
