---------------------------- MODULE AuthSessions ----------------------------
(***************************************************************************)
(* The sessions of testify-server: the refresh tokens that AuthService     *)
(* keeps in Redis, the cookies in which browsers hold them, and the        *)
(* sign-in, refresh and logout calls that move them.                       *)
(*                                                                         *)
(* The module follows one user: tokens of two users are different strings  *)
(* and no call touches those of another.  A refresh token is a JWT over    *)
(* the user, the role and the second in which it is signed, without an id  *)
(* of its own, so two tokens signed in the same second are one and the     *)
(* same string; the second stands for the token.  The access token, the    *)
(* password check and the creation of the account are left out.            *)
(***************************************************************************)
EXTENDS Naturals, FiniteSets

CONSTANTS
    Browser,   \* cookie jars in which the user may be signed in
    Call,      \* calls that can be in flight at once
    Lifetime,  \* seconds until Redis and the JWT expire: seven days
    MaxNow,    \* bound: the clock stops there
    NoBrowser, \* no browser
    NoToken    \* no token

Time  == 0..MaxNow
Token == Time

ASSUME SessionAssumption ==
    /\ MaxNow \in Nat
    /\ Lifetime \in Nat \ {0}
    /\ NoBrowser \notin Browser
    /\ NoToken \notin Nat

VARIABLES
    keys,    \* Redis: when each refresh token will be forgotten, 0 if it is not held
    cookie,  \* the refresh token each browser holds
    calls,   \* the calls in flight
    now,     \* the clock, in seconds
    untidy,  \* history: browsers that lost a call, overlapped two or signed
             \* in over a session they had
    signed,  \* history: seconds in which a token was signed
    twice    \* history: seconds in which two were

vars == <<keys, cookie, calls, now, untidy, signed, twice>>

-----------------------------------------------------------------------------
Pc == {"idle", "sign", "store", "check", "swap", "find", "delete", "answer"}

Idle == [pc |-> "idle", browser |-> NoBrowser, old |-> NoToken, new |-> NoToken]

CallRecord == [pc : Pc, browser : Browser \cup {NoBrowser},
               old : Token \cup {NoToken}, new : Token \cup {NoToken}]

TypeOK ==
    /\ keys \in [Token -> 0..(MaxNow + Lifetime)]
    /\ cookie \in [Browser -> Token \cup {NoToken}]
    /\ calls \in [Call -> CallRecord]
    /\ now \in Time
    /\ untidy \subseteq Browser
    /\ signed \subseteq Time
    /\ twice \subseteq signed

Init ==
    /\ keys = [t \in Token |-> 0]
    /\ cookie = [b \in Browser |-> NoToken]
    /\ calls = [q \in Call |-> Idle]
    /\ now = 0
    /\ untidy = {}
    /\ signed = {}
    /\ twice = {}

Present(t) == keys[t] # 0

Expired(t) == now >= t + Lifetime

(* TokenGuard lets a request of b in. *)
Admits(b) == cookie[b] # NoToken /\ Present(cookie[b])

InFlight(b) == \E q \in Call : calls[q].pc # "idle" /\ calls[q].browser = b

-----------------------------------------------------------------------------
(* Calls and their answers *)

Start(q, b, pc, clash) ==
    /\ calls[q].pc = "idle"
    /\ calls' = [calls EXCEPT ![q] =
                    [pc |-> pc, browser |-> b, new |-> NoToken,
                     old |-> IF pc = "sign" THEN NoToken ELSE cookie[b]]]
    /\ untidy' = IF clash \/ InFlight(b) THEN untidy \cup {b} ELSE untidy
    /\ UNCHANGED <<keys, cookie, now, signed, twice>>

Goto(q, pc) == calls' = [calls EXCEPT ![q].pc = pc]

(* Mutant of Answer: the answer of a refresh sets no cookie. *)
Answer_KeepsCookie(q) ==
    /\ calls[q].pc = "answer"
    /\ cookie' = IF calls[q].old # NoToken /\ calls[q].new # NoToken THEN cookie
                 ELSE [cookie EXCEPT ![calls[q].browser] = calls[q].new]
    /\ calls' = [calls EXCEPT ![q] = Idle]
    /\ UNCHANGED <<keys, now, untidy, signed, twice>>

(* The answer sets the cookie, or clears it after a logout. *)
Answer(q) ==
    /\ calls[q].pc = "answer"
    /\ cookie' = [cookie EXCEPT ![calls[q].browser] = calls[q].new]
    /\ calls' = [calls EXCEPT ![q] = Idle]
    /\ UNCHANGED <<keys, now, untidy, signed, twice>>

Refuse(q) == calls' = [calls EXCEPT ![q] = Idle]

-----------------------------------------------------------------------------
(* register and login *)

SignIn(q, b) == Start(q, b, "sign", cookie[b] # NoToken)

(* generateTokens: also the second half of a refresh. *)
GenerateTokens(q) ==
    /\ calls[q].pc = "sign"
    /\ calls' = [calls EXCEPT ![q].new = now,
                     ![q].pc = IF calls[q].old = NoToken THEN "store" ELSE "swap"]
    /\ signed' = signed \cup {now}
    /\ twice' = IF now \in signed THEN twice \cup {now} ELSE twice
    /\ UNCHANGED <<keys, cookie, now, untidy>>

UpdateRefreshToken(q) ==
    /\ calls[q].pc = "store"
    /\ keys' = [keys EXCEPT ![calls[q].new] = now + Lifetime]
    /\ Goto(q, "answer")
    /\ UNCHANGED <<cookie, now, untidy, signed, twice>>

-----------------------------------------------------------------------------
(* refreshToken *)

Refresh(q, b) == cookie[b] # NoToken /\ Start(q, b, "check", FALSE)

CheckToken(q) ==
    /\ calls[q].pc = "check"
    /\ IF Present(calls[q].old) /\ ~Expired(calls[q].old)
       THEN Goto(q, "sign") ELSE Refuse(q)
    /\ UNCHANGED <<keys, cookie, now, untidy, signed, twice>>

(* Mutants of SwapTokens: the old token is not deleted, the new one is, or *)
(* the old one is stored once more in the place of the new one.            *)
SwapTokens_KeepsOld(q) ==
    /\ calls[q].pc = "swap"
    /\ keys' = [keys EXCEPT ![calls[q].new] = now + Lifetime]
    /\ Goto(q, "answer")
    /\ UNCHANGED <<cookie, now, untidy, signed, twice>>

SwapTokens_DropsNew(q) ==
    /\ calls[q].pc = "swap"
    /\ keys' = [keys EXCEPT ![calls[q].old] = 0, ![calls[q].new] = 0]
    /\ Goto(q, "answer")
    /\ UNCHANGED <<cookie, now, untidy, signed, twice>>

SwapTokens_StoresOld(q) ==
    /\ calls[q].pc = "swap"
    /\ keys' = [keys EXCEPT ![calls[q].old] = now + Lifetime]
    /\ Goto(q, "answer")
    /\ UNCHANGED <<cookie, now, untidy, signed, twice>>

(* The SET of the new token and the DEL of the old one go out together, in *)
(* this order, on the one connection of the process.                       *)
SwapTokens(q) ==
    /\ calls[q].pc = "swap"
    /\ keys' = [keys EXCEPT ![calls[q].new] = now + Lifetime, ![calls[q].old] = 0]
    /\ Goto(q, "answer")
    /\ UNCHANGED <<cookie, now, untidy, signed, twice>>

(* Redis refuses to store the new token and the call fails; of the two     *)
(* commands of a refresh the DEL goes through nevertheless.                *)
StoreFails(q) ==
    /\ calls[q].pc \in {"store", "swap"}
    /\ keys' = IF calls[q].pc = "swap"
               THEN [keys EXCEPT ![calls[q].old] = 0] ELSE keys
    /\ untidy' = untidy \cup {calls[q].browser}
    /\ Refuse(q)
    /\ UNCHANGED <<cookie, now, signed, twice>>

-----------------------------------------------------------------------------
(* logout *)

Logout(q, b) == cookie[b] # NoToken /\ Start(q, b, "find", FALSE)

FindToken(q) ==
    /\ calls[q].pc = "find"
    /\ IF Present(calls[q].old) THEN Goto(q, "delete") ELSE Refuse(q)
    /\ UNCHANGED <<keys, cookie, now, untidy, signed, twice>>

DeleteRefreshToken(q) ==
    /\ calls[q].pc = "delete"
    /\ keys' = [keys EXCEPT ![calls[q].old] = 0]
    /\ Goto(q, "answer")
    /\ UNCHANGED <<cookie, now, untidy, signed, twice>>

-----------------------------------------------------------------------------
(* A call ends without an answer: the process exits, a statement throws or *)
(* the connection breaks.                                                  *)
CallDies(q) ==
    /\ calls[q].pc # "idle"
    /\ Refuse(q)
    /\ untidy' = untidy \cup {calls[q].browser}
    /\ UNCHANGED <<keys, cookie, now, signed, twice>>

(* The clock ticks, and Redis forgets the keys whose time has come. *)
TimePasses ==
    /\ now < MaxNow
    /\ now' = now + 1
    /\ keys' = [t \in Token |-> IF keys[t] > now + 1 THEN keys[t] ELSE 0]
    /\ UNCHANGED <<cookie, calls, untidy, signed, twice>>

-----------------------------------------------------------------------------
Arrive(q, b) == SignIn(q, b) \/ Refresh(q, b) \/ Logout(q, b)

Advance(q) ==
    \/ GenerateTokens(q) \/ UpdateRefreshToken(q)
    \/ CheckToken(q) \/ SwapTokens(q) \/ StoreFails(q)
    \/ FindToken(q) \/ DeleteRefreshToken(q)
    \/ Answer(q) \/ CallDies(q)

Next ==
    \/ \E q \in Call : Advance(q) \/ \E b \in Browser : Arrive(q, b)
    \/ TimePasses

Spec == Init /\ [][Next]_vars

-----------------------------------------------------------------------------
(* Properties *)

(* What the owner of a browser may count on: no call of it is lost, none   *)
(* is in flight, and its token has not expired.                            *)
Settled(b) ==
    /\ b \notin untidy
    /\ ~InFlight(b)
    /\ cookie[b] # NoToken
    /\ ~Expired(cookie[b])

(* A browser that makes one call at a time is let in until its token       *)
(* expires, whatever the other browsers of the user do and however often   *)
(* it refreshes, provided that no second token was signed in the second of *)
(* its own.                                                                *)
SessionsLast ==
    \A b \in Browser : Settled(b) /\ cookie[b] \notin twice => Admits(b)

(* As long as every browser is tidy Redis keeps no session that nobody     *)
(* holds: refresh and logout clear what they replace.                      *)
NoLeftovers ==
    untidy = {} =>
        \A t \in Token : Present(t) =>
            \/ \E b \in Browser : cookie[b] = t
            \/ \E q \in Call : t \in {calls[q].old, calls[q].new}

(* A token that Redis does not hold, and that nobody is about to store,    *)
(* does not come back once its second is over: what was logged out or      *)
(* rotated stays out.                                                      *)
GoneTokensStayGone ==
    [][ \A t \in Token :
            /\ ~Present(t)
            /\ t < now
            /\ \A q \in Call : calls[q].new = t =>
                    calls[q].pc \notin {"store", "swap"}
            => ~Present(t)' ]_vars

-----------------------------------------------------------------------------
(* The inductive strengthening of SessionsLast and NoLeftovers. *)

(* Each step of a call knows the tokens that it needs. *)
CallShape(q) ==
    /\ calls[q].pc = "idle" => calls[q] = Idle
    /\ calls[q].pc # "idle" => calls[q].browser \in Browser
    /\ calls[q].pc \in {"check", "swap", "find", "delete"} => calls[q].old # NoToken
    /\ calls[q].pc \in {"store", "swap"} <=>
            calls[q].new # NoToken /\ calls[q].pc # "answer"
    /\ calls[q].pc = "store" => calls[q].old = NoToken
    /\ calls[q].pc = "answer" /\ calls[q].new = NoToken => calls[q].old # NoToken

(* A tidy browser has one call, which works on the token of its cookie. *)
TidyCalls ==
    \A q \in Call : calls[q].pc # "idle" /\ calls[q].browser \notin untidy =>
        /\ calls[q].old = cookie[calls[q].browser]
        /\ \A p \in Call : p # q => calls[p].browser # calls[q].browser

Holds(b, t) ==
    \/ cookie[b] = t
    \/ \E q \in Call : calls[q].browser = b /\ t \in {calls[q].old, calls[q].new}

(* A token that is alone in its second belongs to one browser. *)
OneOwner ==
    \A t \in Token \ twice : \A b, c \in Browser :
        Holds(b, t) /\ Holds(c, t) => b = c

HeldIsSigned ==
    /\ signed \subseteq 0..now
    /\ \A t \in Token, b \in Browser : Holds(b, t) => t \in signed

(* It is in no cookie and in no other call until its own call is answered. *)
NewIsNew ==
    \A q \in Call : calls[q].new \in Token \ twice =>
        /\ \A b \in Browser : cookie[b] # calls[q].new
        /\ \A p \in Call :
               /\ calls[p].old # calls[q].new
               /\ p # q => calls[p].new # calls[q].new

(* Redis keeps t at least as long as the JWT is valid. *)
Kept(t) == ~Expired(t) => keys[t] >= t + Lifetime

(* The token of a tidy browser is kept until a call of its own has taken   *)
(* it out, and the new token of that call is kept from then on.            *)
TokensAreKept ==
    /\ \A b \in Browser \ untidy :
          /\ cookie[b] \in Token \ twice
          /\ \A q \in Call : calls[q].browser = b => calls[q].pc # "answer"
          => Kept(cookie[b])
    /\ \A q \in Call :
          /\ calls[q].pc = "answer"
          /\ calls[q].browser \notin untidy
          /\ calls[q].new \in Token \ twice
          => Kept(calls[q].new)

(* What Redis holds is in the cookie of a browser that is not about to     *)
(* drop it, or about to get into one.                                      *)
KeysAreHeld ==
    untidy = {} =>
        \A t \in Token : Present(t) =>
            \/ \E b \in Browser : /\ cookie[b] = t
                                  /\ \A q \in Call : calls[q].browser = b =>
                                            calls[q].pc # "answer"
            \/ \E q \in Call : calls[q].new = t

SessionInv ==
    /\ TypeOK
    /\ \A q \in Call : CallShape(q)
    /\ TidyCalls
    /\ OneOwner
    /\ HeldIsSigned
    /\ NewIsNew
    /\ TokensAreKept
    /\ KeysAreHeld

=============================================================================
