------------------------- MODULE AuthSessionsProofs -------------------------
(***************************************************************************)
(* Proofs about AuthSessions: sessions last for every number of browsers   *)
(* and of calls in flight, and for every lifetime of a token.              *)
(***************************************************************************)
EXTENDS AuthSessions, TLAPS

USE SessionAssumption DEF Time, Token

-----------------------------------------------------------------------------
(* Types *)

LEMMA IdleTyped == Idle \in CallRecord
BY DEF Idle, CallRecord, Pc

(* What a call becomes is all that the other invariants see of a step.     *)
LEMMA CallReplaced ==
    ASSUME TypeOK, NEW q \in Call, NEW r \in CallRecord,
           calls' = [calls EXCEPT ![q] = r]
    PROVE  /\ calls' \in [Call -> CallRecord]
           /\ calls'[q] = r
           /\ \A p \in Call : p # q => calls'[p] = calls[p]
BY DEF TypeOK

LEMMA PcChanged ==
    ASSUME TypeOK, NEW q \in Call, NEW pc \in Pc, Goto(q, pc)
    PROVE  /\ calls' \in [Call -> CallRecord]
           /\ calls'[q].pc = pc
           /\ calls'[q].browser = calls[q].browser
           /\ calls'[q].old = calls[q].old
           /\ calls'[q].new = calls[q].new
           /\ \A p \in Call : p # q => calls'[p] = calls[p]
BY DEF TypeOK, Goto, CallRecord

LEMMA TokensSigned ==
    ASSUME TypeOK, NEW q \in Call, GenerateTokens(q)
    PROVE  /\ calls' \in [Call -> CallRecord]
           /\ calls'[q].pc = IF calls[q].old = NoToken THEN "store" ELSE "swap"
           /\ calls'[q].browser = calls[q].browser
           /\ calls'[q].old = calls[q].old
           /\ calls'[q].new = now
           /\ \A p \in Call : p # q => calls'[p] = calls[p]
<1> DEFINE r == [calls[q] EXCEPT !.new = now,
                     !.pc = IF calls[q].old = NoToken THEN "store" ELSE "swap"]
<1>1. calls[q] \in CallRecord
  BY DEF TypeOK
<1>2. /\ r \in CallRecord
      /\ r.pc = IF calls[q].old = NoToken THEN "store" ELSE "swap"
      /\ r.browser = calls[q].browser
      /\ r.old = calls[q].old
      /\ r.new = now
  BY <1>1 DEF CallRecord, Pc, TypeOK
<1>3. calls' = [calls EXCEPT ![q] = r]
  BY DEF GenerateTokens
<1> HIDE DEF r
<1> QED
  BY <1>2, <1>3, CallReplaced

LEMMA CallStarted ==
    ASSUME TypeOK, NEW q \in Call, NEW b \in Browser, NEW clash,
           NEW pc \in {"sign", "check", "find"}, Start(q, b, pc, clash)
    PROVE  /\ calls' \in [Call -> CallRecord]
           /\ calls'[q].pc = pc
           /\ calls'[q].browser = b
           /\ calls'[q].old = IF pc = "sign" THEN NoToken ELSE cookie[b]
           /\ calls'[q].new = NoToken
           /\ \A p \in Call : p # q => calls'[p] = calls[p]
<1> DEFINE r == [pc |-> pc, browser |-> b, new |-> NoToken,
                 old |-> IF pc = "sign" THEN NoToken ELSE cookie[b]]
<1>1. /\ r \in CallRecord
      /\ r.pc = pc
      /\ r.browser = b
      /\ r.old = IF pc = "sign" THEN NoToken ELSE cookie[b]
      /\ r.new = NoToken
  BY DEF TypeOK, CallRecord, Pc
<1>2. calls' = [calls EXCEPT ![q] = r]
  BY DEF Start
<1> HIDE DEF r
<1> QED
  BY <1>1, <1>2, CallReplaced

LEMMA CallEnded ==
    ASSUME TypeOK, NEW q \in Call, Refuse(q)
    PROVE  /\ calls' \in [Call -> CallRecord]
           /\ calls'[q] = Idle
           /\ \A p \in Call : p # q => calls'[p] = calls[p]
BY IdleTyped, CallReplaced DEF Refuse

-----------------------------------------------------------------------------
LEMMA TypeInit == Init => TypeOK
BY IdleTyped DEF Init, TypeOK

LEMMA TypeStep ==
    ASSUME TypeOK, \A q \in Call : CallShape(q), [Next]_vars
    PROVE  TypeOK'
<1>1. ASSUME NEW q \in Call, NEW b \in Browser, Arrive(q, b) PROVE TypeOK'
  <2>1. PICK pc \in {"sign", "check", "find"}, clash \in BOOLEAN :
            Start(q, b, pc, clash)
    BY <1>1 DEF Arrive, SignIn, Refresh, Logout
  <2>2. calls' \in [Call -> CallRecord]
    BY <2>1, CallStarted
  <2> QED
    BY <2>1, <2>2 DEF TypeOK, Start
<1>2. ASSUME NEW q \in Call, GenerateTokens(q) PROVE TypeOK'
  BY <1>2, TokensSigned DEF TypeOK, GenerateTokens
<1>3. ASSUME NEW q \in Call, UpdateRefreshToken(q) \/ SwapTokens(q) \/ DeleteRefreshToken(q)
      PROVE  TypeOK'
  <2>1. Goto(q, "answer")
    BY <1>3 DEF UpdateRefreshToken, SwapTokens, DeleteRefreshToken
  <2>2. calls' \in [Call -> CallRecord]
    BY <2>1, PcChanged DEF Pc
  <2>3. /\ now + Lifetime \in 0..(MaxNow + Lifetime)
        /\ 0 \in 0..(MaxNow + Lifetime)
    BY DEF TypeOK
  <2>4. keys' \in [Token -> 0..(MaxNow + Lifetime)]
    BY <1>3, <2>3 DEF TypeOK, UpdateRefreshToken, SwapTokens, DeleteRefreshToken
  <2> QED
    BY <1>3, <2>2, <2>4 DEF TypeOK, UpdateRefreshToken, SwapTokens, DeleteRefreshToken
<1>4. ASSUME NEW q \in Call, CheckToken(q) \/ FindToken(q) PROVE TypeOK'
  <2>1. \/ Refuse(q)
        \/ \E pc \in Pc : Goto(q, pc)
    BY <1>4 DEF CheckToken, FindToken, Pc
  <2>2. calls' \in [Call -> CallRecord]
    BY <2>1, PcChanged, CallEnded
  <2> QED
    BY <1>4, <2>2 DEF TypeOK, CheckToken, FindToken
<1>5. ASSUME NEW q \in Call, Answer(q) \/ StoreFails(q) \/ CallDies(q) PROVE TypeOK'
  <2>1. Refuse(q)
    BY <1>5 DEF Answer, StoreFails, CallDies, Refuse
  <2>2. calls' \in [Call -> CallRecord]
    BY <2>1, CallEnded
  <2>3. calls[q].pc # "idle" /\ calls[q].browser \in Browser
    BY <1>5 DEF Answer, StoreFails, CallDies, CallShape
  <2>4. calls[q] \in CallRecord
    BY DEF TypeOK
  <2>5. calls[q].new \in Token \cup {NoToken}
    BY <2>4 DEF CallRecord
  <2>6. CASE Answer(q)
    BY <2>2, <2>3, <2>5, <2>6 DEF TypeOK, Answer
  <2>7. CASE StoreFails(q)
    <3>1. 0 \in 0..(MaxNow + Lifetime)
      OBVIOUS
    <3>2. keys' \in [Token -> 0..(MaxNow + Lifetime)]
      BY <2>7, <3>1 DEF TypeOK, StoreFails
    <3> QED
      BY <2>2, <2>3, <2>7, <3>2 DEF TypeOK, StoreFails
  <2>8. CASE CallDies(q)
    BY <2>2, <2>3, <2>8 DEF TypeOK, CallDies
  <2> QED
    BY <1>5, <2>6, <2>7, <2>8
<1>6. CASE TimePasses
  BY <1>6 DEF TypeOK, TimePasses
<1>7. CASE UNCHANGED vars
  BY <1>7 DEF TypeOK, vars
<1> QED
  BY <1>1, <1>2, <1>3, <1>4, <1>5, <1>6, <1>7 DEF Next, Advance

-----------------------------------------------------------------------------
(* The other conjuncts of SessionInv, one lemma for each kind of step *)

LEMMA StartStep ==
    ASSUME SessionInv, NEW q \in Call, NEW b \in Browser, Arrive(q, b)
    PROVE  /\ \A p \in Call : CallShape(p)'
           /\ TidyCalls' /\ OneOwner' /\ HeldIsSigned' /\ NewIsNew' /\ TokensAreKept'
<1>1. TypeOK
  BY DEF SessionInv
<1>2. PICK pc \in {"sign", "check", "find"}, clash \in BOOLEAN :
          /\ Start(q, b, pc, clash)
          /\ pc = "sign" /\ b \notin untidy' => cookie[b] = NoToken
          /\ pc # "sign" => cookie[b] # NoToken
  BY DEF Arrive, SignIn, Refresh, Logout, Start
<1>3. /\ calls' \in [Call -> CallRecord]
      /\ calls'[q].pc = pc
      /\ calls'[q].browser = b
      /\ calls'[q].old = IF pc = "sign" THEN NoToken ELSE cookie[b]
      /\ calls'[q].new = NoToken
      /\ \A p \in Call : p # q => calls'[p] = calls[p]
  BY <1>1, <1>2, CallStarted
<1>4. /\ UNCHANGED <<keys, cookie, now, signed, twice>>
      /\ calls[q] = Idle
      /\ untidy \subseteq untidy'
      /\ InFlight(b) => b \in untidy'
  BY <1>2 DEF Start, SessionInv, CallShape
<1>5. \A p \in Call : CallShape(p)'
  BY <1>2, <1>3 DEF CallShape, SessionInv
<1>6. TidyCalls'
  BY <1>2, <1>3, <1>4 DEF TidyCalls, SessionInv, InFlight, CallShape, Idle
<1>7. \A c \in Browser, t \in Token : Holds(c, t)' => Holds(c, t)
  BY <1>1, <1>2, <1>3, <1>4 DEF Holds
<1>8. OneOwner' /\ HeldIsSigned'
  BY <1>4, <1>7 DEF OneOwner, HeldIsSigned, SessionInv
<1>9. NewIsNew'
  BY <1>1, <1>2, <1>3, <1>4 DEF NewIsNew, SessionInv, Idle
<1>10. TokensAreKept'
  BY <1>1, <1>2, <1>3, <1>4 DEF TokensAreKept, SessionInv, Kept, Expired, Idle
<1> QED
  BY <1>5, <1>6, <1>8, <1>9, <1>10

LEMMA SignStep ==
    ASSUME SessionInv, NEW q \in Call, GenerateTokens(q)
    PROVE  /\ \A p \in Call : CallShape(p)'
           /\ TidyCalls' /\ OneOwner' /\ HeldIsSigned' /\ NewIsNew' /\ TokensAreKept'
<1>1. TypeOK /\ now \in Token
  BY DEF SessionInv, TypeOK
<1>2. /\ calls' \in [Call -> CallRecord]
      /\ calls'[q].pc = IF calls[q].old = NoToken THEN "store" ELSE "swap"
      /\ calls'[q].browser = calls[q].browser
      /\ calls'[q].old = calls[q].old
      /\ calls'[q].new = now
      /\ \A p \in Call : p # q => calls'[p] = calls[p]
  BY <1>1, TokensSigned
<1>3. /\ UNCHANGED <<keys, cookie, now, untidy>>
      /\ signed' = signed \cup {now}
      /\ twice \subseteq twice'
      /\ now \in signed => now \in twice'
      /\ calls[q].pc = "sign"
      /\ calls[q].browser \in Browser
  BY DEF GenerateTokens, SessionInv, CallShape
<1>4. \A p \in Call : CallShape(p)'
  BY <1>1, <1>2, <1>3 DEF CallShape, SessionInv
<1>5. TidyCalls'
  BY <1>2, <1>3 DEF TidyCalls, SessionInv, CallShape
<1>6. \A c \in Browser, t \in Token :
          Holds(c, t)' => Holds(c, t) \/ t = now
  BY <1>2, <1>3 DEF Holds
<1>7. \A c \in Browser : now \notin twice' =>
          /\ ~Holds(c, now)
          /\ Holds(c, now)' => c = calls[q].browser
  BY <1>1, <1>2, <1>3 DEF HeldIsSigned, SessionInv, Holds
<1>8. OneOwner' /\ HeldIsSigned'
  <2>1. OneOwner'
    BY <1>3, <1>6, <1>7 DEF OneOwner, SessionInv
  <2>2. HeldIsSigned'
    BY <1>1, <1>3, <1>6 DEF HeldIsSigned, SessionInv, TypeOK
  <2> QED
    BY <2>1, <2>2
<1>9. NewIsNew'
  <2>1. \A p \in Call : calls[p].browser \in Browser \/ calls[p] = Idle
    BY DEF SessionInv, CallShape
  <2>2. now \notin twice' => \A p \in Call : now \notin {calls[p].old, calls[p].new}
    BY <1>1, <1>7, <2>1 DEF Holds, Idle
  <2>3. now \notin twice' => \A c \in Browser : cookie[c] # now
    BY <1>7 DEF Holds
  <2> QED
    BY <1>1, <1>2, <1>3, <2>2, <2>3 DEF NewIsNew, SessionInv
<1>10. TokensAreKept'
  BY <1>1, <1>2, <1>3 DEF TokensAreKept, SessionInv, Kept, Expired
<1> QED
  BY <1>4, <1>5, <1>8, <1>9, <1>10

(* The steps that change neither a token nor Redis. *)
LEMMA FoundStep ==
    ASSUME SessionInv, NEW q \in Call, NEW pc \in {"sign", "delete"}, Goto(q, pc),
           pc = "sign" => calls[q].pc = "check", pc = "delete" => calls[q].pc = "find",
           UNCHANGED <<keys, cookie, now, untidy, signed, twice>>
    PROVE  /\ \A p \in Call : CallShape(p)'
           /\ TidyCalls' /\ OneOwner' /\ HeldIsSigned' /\ NewIsNew' /\ TokensAreKept'
<1>1. TypeOK /\ pc \in Pc
  BY DEF SessionInv, Pc
<1>2. /\ calls' \in [Call -> CallRecord]
      /\ calls'[q].pc = pc
      /\ calls'[q].browser = calls[q].browser
      /\ calls'[q].old = calls[q].old
      /\ calls'[q].new = calls[q].new
      /\ \A p \in Call : p # q => calls'[p] = calls[p]
  BY <1>1, PcChanged
<1>3. \A p \in Call : CallShape(p)'
  BY <1>1, <1>2 DEF CallShape, SessionInv
<1>4. TidyCalls'
  BY <1>2 DEF TidyCalls, SessionInv
<1>5. \A c \in Browser, t \in Token : Holds(c, t)' <=> Holds(c, t)
  BY <1>2 DEF Holds
<1>6. OneOwner' /\ HeldIsSigned'
  BY <1>5 DEF OneOwner, HeldIsSigned, SessionInv
<1>7. NewIsNew'
  BY <1>2 DEF NewIsNew, SessionInv
<1>8. TokensAreKept'
  BY <1>1, <1>2 DEF TokensAreKept, SessionInv, Kept, Expired
<1> QED
  BY <1>3, <1>4, <1>6, <1>7, <1>8

(* The steps that change Redis and leave the call with its answer. *)
LEMMA RedisStep ==
    ASSUME SessionInv, NEW q \in Call,
           UpdateRefreshToken(q) \/ SwapTokens(q) \/ DeleteRefreshToken(q)
    PROVE  /\ \A p \in Call : CallShape(p)'
           /\ TidyCalls' /\ OneOwner' /\ HeldIsSigned' /\ NewIsNew' /\ TokensAreKept'
<1>1. TypeOK
  BY DEF SessionInv
<1>2. /\ UNCHANGED <<cookie, now, untidy, signed, twice>>
      /\ calls[q].pc \in {"store", "swap", "delete"}
      /\ Goto(q, "answer")
      /\ calls[q] \in CallRecord
      /\ calls[q].browser \in Browser
  BY <1>1 DEF UpdateRefreshToken, SwapTokens, DeleteRefreshToken, SessionInv, CallShape, TypeOK
<1>3. /\ calls' \in [Call -> CallRecord]
      /\ calls'[q].pc = "answer"
      /\ calls'[q].browser = calls[q].browser
      /\ calls'[q].old = calls[q].old
      /\ calls'[q].new = calls[q].new
      /\ \A p \in Call : p # q => calls'[p] = calls[p]
  BY <1>1, <1>2, PcChanged DEF Pc
<1>4. \A p \in Call : CallShape(p)'
  BY <1>1, <1>2, <1>3 DEF CallShape, SessionInv
<1>5. TidyCalls'
  BY <1>2, <1>3 DEF TidyCalls, SessionInv
<1>6. \A c \in Browser, t \in Token : Holds(c, t)' <=> Holds(c, t)
  BY <1>2, <1>3 DEF Holds
<1>7. OneOwner' /\ HeldIsSigned'
  BY <1>2, <1>6 DEF OneOwner, HeldIsSigned, SessionInv
<1>8. NewIsNew'
  BY <1>2, <1>3 DEF NewIsNew, SessionInv
<1>9. \A t \in Token : /\ calls[q].old # t => keys'[t] = keys[t] \/ Kept(t)'
                       /\ calls[q].old # t /\ calls[q].new = t => Kept(t)'
  <2>1. \A t \in Token : t # calls[q].old /\ t # calls[q].new => keys'[t] = keys[t]
    BY <1>1 DEF UpdateRefreshToken, SwapTokens, DeleteRefreshToken, TypeOK
  <2>2. \A t \in Token : t # calls[q].old /\ t = calls[q].new =>
            keys'[t] = now + Lifetime
    BY <1>1, <1>2 DEF UpdateRefreshToken, SwapTokens, DeleteRefreshToken, TypeOK, SessionInv, CallShape
  <2> QED
    <3>1. \A t \in Token : t = calls[q].new => t \in 0..now
      BY <1>2 DEF SessionInv, HeldIsSigned, Holds
    <3> QED
      BY <1>1, <1>2, <2>1, <2>2, <3>1 DEF Kept, Expired, TypeOK
<1>10. TokensAreKept'
  <2>1. ASSUME NEW b \in Browser \ untidy', cookie'[b] \in Token \ twice',
               \A p \in Call : calls'[p].browser = b => calls'[p].pc # "answer"
        PROVE  Kept(cookie[b])'
    <3>1. b # calls[q].browser
      BY <1>3, <2>1
    <3>2. \A p \in Call : calls[p].browser = b => calls[p].pc # "answer"
      BY <1>3, <2>1, <3>1
    <3>3. Kept(cookie[b])
      BY <1>2, <2>1, <3>2 DEF SessionInv, TokensAreKept
    <3>4. calls[q].old # cookie[b]
      BY <1>2, <2>1, <3>1 DEF SessionInv, OneOwner, Holds
    <3> QED
      BY <1>2, <1>9, <2>1, <3>3, <3>4 DEF Kept, Expired
  <2>2. ASSUME NEW p \in Call, calls'[p].pc = "answer",
               calls'[p].browser \notin untidy', calls'[p].new \in Token \ twice'
        PROVE  Kept(calls[p].new)'
    <3>1. calls[q].old # calls[p].new /\ calls'[p].new = calls[p].new
      BY <1>2, <1>3, <2>2 DEF SessionInv, NewIsNew
    <3>2. CASE p = q
      BY <1>2, <1>9, <2>2, <3>1, <3>2
    <3>3. CASE p # q
      BY <1>2, <1>3, <1>9, <2>2, <3>1, <3>3 DEF SessionInv, TokensAreKept, Kept, Expired
    <3> QED
      BY <3>2, <3>3
  <2> QED
    BY <2>1, <2>2 DEF TokensAreKept
<1> QED
  BY <1>4, <1>5, <1>7, <1>8, <1>10

(* The steps that end a call without an answer that changes the cookie. *)
LEMMA RefusedStep ==
    ASSUME SessionInv, NEW q \in Call, Refuse(q), calls[q].pc # "idle",
           UNCHANGED <<cookie, now, signed, twice>>,
           untidy \subseteq untidy',
           \/ UNCHANGED keys /\ calls[q].pc # "answer"
           \/ UNCHANGED keys /\ calls[q].browser \in untidy'
           \/ StoreFails(q)
    PROVE  /\ \A p \in Call : CallShape(p)'
           /\ TidyCalls' /\ OneOwner' /\ HeldIsSigned' /\ NewIsNew' /\ TokensAreKept'
<1>1. TypeOK /\ calls[q] \in CallRecord /\ calls[q].browser \in Browser
  BY DEF SessionInv, TypeOK, CallShape
<1>2. /\ calls' \in [Call -> CallRecord]
      /\ calls'[q] = Idle
      /\ \A p \in Call : p # q => calls'[p] = calls[p]
  BY <1>1, CallEnded
<1>3. \A p \in Call : CallShape(p)'
  BY <1>2 DEF CallShape, SessionInv, Idle
<1>4. TidyCalls'
  BY <1>1, <1>2 DEF TidyCalls, SessionInv, CallShape, Idle
<1>5. \A c \in Browser, t \in Token : Holds(c, t)' => Holds(c, t)
  BY <1>2 DEF Holds, Idle
<1>6. OneOwner' /\ HeldIsSigned'
  BY <1>5 DEF OneOwner, HeldIsSigned, SessionInv
<1>7. NewIsNew'
  BY <1>2 DEF NewIsNew, SessionInv, Idle
<1>8. /\ \A t \in Token : t # calls[q].old => keys'[t] = keys[t]
      /\ UNCHANGED keys \/ calls[q].browser \in untidy'
  BY <1>1 DEF StoreFails, TypeOK
<1>9. TokensAreKept'
  <2>1. ASSUME NEW b \in Browser \ untidy', cookie'[b] \in Token \ twice',
               \A p \in Call : calls'[p].browser = b => calls'[p].pc # "answer"
        PROVE  Kept(cookie[b])'
    <3>1. \A p \in Call : calls[p].browser = b => calls[p].pc # "answer"
      BY <1>2, <2>1 DEF StoreFails
    <3>2. Kept(cookie[b])
      BY <2>1, <3>1 DEF SessionInv, TokensAreKept
    <3>3. calls[q].old # cookie[b] \/ UNCHANGED keys
      BY <1>1, <1>8, <2>1 DEF SessionInv, OneOwner, Holds
    <3> QED
      BY <1>8, <2>1, <3>2, <3>3 DEF Kept, Expired
  <2>2. ASSUME NEW p \in Call, calls'[p].pc = "answer",
               calls'[p].browser \notin untidy', calls'[p].new \in Token \ twice'
        PROVE  Kept(calls[p].new)'
    <3>1. p # q /\ calls'[p] = calls[p]
      BY <1>2, <2>2 DEF Idle
    <3>2. Kept(calls[p].new)
      BY <2>2, <3>1 DEF SessionInv, TokensAreKept
    <3>3. calls[q].old # calls[p].new
      BY <2>2, <3>1 DEF SessionInv, NewIsNew
    <3> QED
      BY <1>8, <2>2, <3>1, <3>2, <3>3 DEF Kept, Expired
  <2> QED
    BY <2>1, <2>2 DEF TokensAreKept
<1> QED
  BY <1>3, <1>4, <1>6, <1>7, <1>9

LEMMA AnswerStep ==
    ASSUME SessionInv, NEW q \in Call, Answer(q)
    PROVE  /\ \A p \in Call : CallShape(p)'
           /\ TidyCalls' /\ OneOwner' /\ HeldIsSigned' /\ NewIsNew' /\ TokensAreKept'
<1>1. TypeOK /\ calls[q] \in CallRecord /\ calls[q].browser \in Browser
  BY DEF SessionInv, TypeOK, CallShape, Answer
<1>2. /\ UNCHANGED <<keys, now, untidy, signed, twice>>
      /\ Refuse(q)
      /\ calls[q].pc = "answer"
      /\ cookie'[calls[q].browser] = calls[q].new
      /\ \A b \in Browser : b # calls[q].browser => cookie'[b] = cookie[b]
  BY <1>1 DEF Answer, Refuse, TypeOK
<1>3. /\ calls' \in [Call -> CallRecord]
      /\ calls'[q] = Idle
      /\ \A p \in Call : p # q => calls'[p] = calls[p]
  BY <1>1, <1>2, CallEnded
<1>4. \A p \in Call : CallShape(p)'
  BY <1>3 DEF CallShape, SessionInv, Idle
<1>5. TidyCalls'
  BY <1>1, <1>2, <1>3 DEF TidyCalls, SessionInv, Idle, CallShape
<1>6. \A c \in Browser, t \in Token : Holds(c, t)' => Holds(c, t)
  BY <1>1, <1>2, <1>3 DEF Holds, Idle
<1>7. OneOwner' /\ HeldIsSigned'
  BY <1>2, <1>6 DEF OneOwner, HeldIsSigned, SessionInv
<1>8. NewIsNew'
  BY <1>1, <1>2, <1>3 DEF NewIsNew, SessionInv, Idle
<1>9. TokensAreKept'
  BY <1>1, <1>2, <1>3 DEF TokensAreKept, SessionInv, Kept, Expired, Idle, TidyCalls, CallShape
<1> QED
  BY <1>4, <1>5, <1>7, <1>8, <1>9

LEMMA TimeStep ==
    ASSUME SessionInv, TimePasses
    PROVE  /\ \A p \in Call : CallShape(p)'
           /\ TidyCalls' /\ OneOwner' /\ HeldIsSigned' /\ NewIsNew' /\ TokensAreKept'
<1>1. /\ UNCHANGED <<calls, cookie, untidy, signed, twice>>
      /\ TypeOK
  BY DEF TimePasses, SessionInv
<1>2. /\ \A p \in Call : CallShape(p)'
      /\ TidyCalls' /\ OneOwner' /\ HeldIsSigned' /\ NewIsNew'
  BY <1>1 DEF SessionInv, CallShape, TidyCalls, OneOwner, HeldIsSigned, Holds, NewIsNew,
        TimePasses, TypeOK
<1>3. \A t \in Token : Kept(t) => Kept(t)'
  BY <1>1 DEF Kept, Expired, TimePasses, TypeOK
<1>4. TokensAreKept'
  BY <1>1, <1>3 DEF SessionInv, TokensAreKept
<1> QED
  BY <1>2, <1>4

-----------------------------------------------------------------------------
(* What Redis holds *)

LEMMA HeldKeysStep ==
    ASSUME SessionInv, [Next]_vars
    PROVE  KeysAreHeld'
<1>1. TypeOK /\ \A q \in Call : CallShape(q)
  BY DEF SessionInv
<1>2. ASSUME NEW q \in Call, calls[q].new = NoToken \/ calls'[q].new = calls[q].new,
             \A p \in Call : p # q => calls'[p] = calls[p],
             calls'[q].pc # "answer", untidy \subseteq untidy', UNCHANGED <<keys, cookie>>
      PROVE  KeysAreHeld'
  <2> SUFFICES ASSUME untidy = {}, NEW t \in Token, Present(t)
               PROVE  \/ \E b \in Browser : /\ cookie[b] = t
                                            /\ \A p \in Call : calls'[p].browser = b =>
                                                      calls'[p].pc # "answer"
                      \/ \E p \in Call : calls'[p].new = t
    BY <1>2 DEF KeysAreHeld, Present
  <2>1. CASE \E p \in Call : calls[p].new = t
    BY <1>2, <2>1
  <2>2. ASSUME NEW b \in Browser, cookie[b] = t,
               \A p \in Call : calls[p].browser = b => calls[p].pc # "answer"
        PROVE  \A p \in Call : calls'[p].browser = b => calls'[p].pc # "answer"
    BY <1>2, <2>2
  <2> QED
    BY <2>1, <2>2 DEF SessionInv, KeysAreHeld
<1>3. ASSUME NEW q \in Call, NEW b \in Browser, Arrive(q, b) PROVE KeysAreHeld'
  <2>1. PICK pc \in {"sign", "check", "find"}, clash \in BOOLEAN :
            Start(q, b, pc, clash)
    BY <1>3 DEF Arrive, SignIn, Refresh, Logout
  <2>2. /\ calls'[q].pc # "answer" /\ calls[q].new = NoToken
        /\ \A p \in Call : p # q => calls'[p] = calls[p]
    BY <1>1, <2>1, CallStarted DEF Start, CallShape, Idle
  <2>3. untidy \subseteq untidy' /\ UNCHANGED <<keys, cookie>>
    BY <2>1 DEF Start
  <2> QED
    BY <1>2, <2>2, <2>3
<1>4. ASSUME NEW q \in Call, GenerateTokens(q) PROVE KeysAreHeld'
  <2>1. /\ calls'[q].pc # "answer"
        /\ \A p \in Call : p # q => calls'[p] = calls[p]
    BY <1>1, <1>4, TokensSigned
  <2>2. /\ calls[q].new = NoToken
        /\ untidy' = untidy /\ UNCHANGED <<keys, cookie>>
    BY <1>1, <1>4 DEF GenerateTokens, CallShape
  <2> QED
    BY <1>2, <2>1, <2>2
<1>5. ASSUME NEW q \in Call, UpdateRefreshToken(q) \/ SwapTokens(q) \/ DeleteRefreshToken(q)
      PROVE  KeysAreHeld'
  <2> SUFFICES ASSUME untidy = {} PROVE KeysAreHeld'
    BY <1>5 DEF KeysAreHeld, UpdateRefreshToken, SwapTokens, DeleteRefreshToken
  <2>1. /\ UNCHANGED <<cookie, untidy>>
        /\ calls[q].pc \in {"store", "swap", "delete"}
        /\ Goto(q, "answer")
    BY <1>5 DEF UpdateRefreshToken, SwapTokens, DeleteRefreshToken
  <2>2. /\ calls'[q].browser = calls[q].browser
        /\ calls'[q].new = calls[q].new
        /\ \A p \in Call : p # q => calls'[p] = calls[p]
    BY <1>1, <2>1, PcChanged DEF Pc
  <2>3. calls[q].old = cookie[calls[q].browser]
    BY <2>1 DEF SessionInv, TidyCalls
  <2>4. \A t \in Token : Present(t)' =>
            \/ t = calls[q].new
            \/ Present(t) /\ t # calls[q].old
    <3>1. \A t \in Token : t # calls[q].old /\ t # calls[q].new => keys'[t] = keys[t]
      BY <1>1, <1>5 DEF UpdateRefreshToken, SwapTokens, DeleteRefreshToken, TypeOK
    <3>2. \A t \in Token : t = calls[q].old => keys'[t] = 0
      BY <1>1, <1>5 DEF UpdateRefreshToken, SwapTokens, DeleteRefreshToken, TypeOK, CallShape
    <3> QED
      BY <3>1, <3>2 DEF Present
  <2>5. ASSUME NEW t \in Token, Present(t), t # calls[q].old
        PROVE  \/ \E b \in Browser : /\ cookie[b] = t
                                     /\ \A p \in Call : calls'[p].browser = b =>
                                               calls'[p].pc # "answer"
               \/ \E p \in Call : calls'[p].new = t
    <3>1. CASE \E p \in Call : calls[p].new = t
      BY <2>2, <3>1
    <3>2. ASSUME NEW b \in Browser, cookie[b] = t,
                 \A p \in Call : calls[p].browser = b => calls[p].pc # "answer"
          PROVE  \A p \in Call : calls'[p].browser = b => calls'[p].pc # "answer"
      <4>1. b # calls[q].browser
        BY <2>3, <2>5, <3>2
      <4> QED
        BY <2>2, <3>2, <4>1
    <3> QED
      BY <2>5, <3>1, <3>2 DEF SessionInv, KeysAreHeld
  <2> QED
    BY <2>1, <2>2, <2>4, <2>5 DEF KeysAreHeld
<1>6. ASSUME NEW q \in Call, CheckToken(q) \/ FindToken(q) PROVE KeysAreHeld'
  <2>1. /\ calls[q].pc \in {"check", "find"} /\ calls[q].new = NoToken
        /\ untidy' = untidy /\ UNCHANGED <<keys, cookie>>
        /\ Refuse(q) \/ Goto(q, "sign") \/ Goto(q, "delete")
    BY <1>1, <1>6 DEF CheckToken, FindToken, CallShape
  <2>2. /\ calls'[q].pc # "answer"
        /\ \A p \in Call : p # q => calls'[p] = calls[p]
    BY <1>1, <2>1, CallEnded, PcChanged DEF Pc, Idle
  <2> QED
    BY <1>2, <2>1, <2>2
<1>7. ASSUME NEW q \in Call, StoreFails(q) \/ CallDies(q) PROVE KeysAreHeld'
  <2>1. untidy' # {}
    BY <1>7 DEF StoreFails, CallDies
  <2> QED
    BY <2>1 DEF KeysAreHeld
<1>8. ASSUME NEW q \in Call, Answer(q) PROVE KeysAreHeld'
  <2> SUFFICES ASSUME untidy = {} PROVE KeysAreHeld'
    BY <1>8 DEF KeysAreHeld, Answer
  <2> DEFINE me == calls[q].browser
  <2>1. /\ me \in Browser /\ calls[q].pc = "answer"
        /\ UNCHANGED <<keys, untidy>> /\ Refuse(q)
        /\ cookie'[me] = calls[q].new
        /\ \A b \in Browser : b # me => cookie'[b] = cookie[b]
    BY <1>1, <1>8 DEF Answer, Refuse, CallShape, TypeOK
  <2>2. /\ calls'[q] = Idle
        /\ \A p \in Call : p # q => calls'[p] = calls[p]
    BY <1>1, <2>1, CallEnded
  <2>3. \A p \in Call : p # q => calls[p].browser # me
    BY <2>1 DEF SessionInv, TidyCalls
  <2>4. \A p \in Call : calls'[p].browser = me => calls'[p].pc # "answer"
    BY <2>2, <2>3 DEF Idle
  <2> SUFFICES ASSUME NEW t \in Token, Present(t)
               PROVE  \/ \E b \in Browser : /\ cookie'[b] = t
                                            /\ \A p \in Call : calls'[p].browser = b =>
                                                      calls'[p].pc # "answer"
                      \/ \E p \in Call : calls'[p].new = t
    BY <2>1 DEF KeysAreHeld, Present
  <2>5. CASE t = calls[q].new
    BY <2>1, <2>4, <2>5
  <2>6. ASSUME NEW p \in Call, p # q, calls[p].new = t
        PROVE  calls'[p].new = t
    BY <2>2, <2>6
  <2>7. ASSUME NEW b \in Browser, cookie[b] = t,
               \A p \in Call : calls[p].browser = b => calls[p].pc # "answer"
        PROVE  /\ cookie'[b] = t
               /\ \A p \in Call : calls'[p].browser = b => calls'[p].pc # "answer"
    <3>1. b # me
      BY <2>1, <2>7
    <3> QED
      BY <2>1, <2>2, <2>7, <3>1 DEF Idle
  <2> QED
    BY <2>5, <2>6, <2>7 DEF SessionInv, KeysAreHeld
<1>9. CASE TimePasses
  <2>1. \A t \in Token : Present(t)' => Present(t)
    BY <1>1, <1>9 DEF TimePasses, TypeOK, Present
  <2> QED
    BY <1>9, <2>1 DEF TimePasses, SessionInv, KeysAreHeld
<1>10. CASE UNCHANGED vars
  BY <1>10 DEF vars, SessionInv, KeysAreHeld, Present
<1> QED
  BY <1>3, <1>4, <1>5, <1>6, <1>7, <1>8, <1>9, <1>10 DEF Next, Advance

-----------------------------------------------------------------------------
LEMMA InitInv == Init => SessionInv
BY TypeInit DEF Init, Idle, SessionInv, CallShape, TidyCalls, OneOwner, HeldIsSigned,
     Holds, NewIsNew, TokensAreKept, KeysAreHeld, Present

LEMMA NextInv == SessionInv /\ [Next]_vars => SessionInv'
<1> SUFFICES ASSUME SessionInv, [Next]_vars PROVE SessionInv'
  OBVIOUS
<1> DEFINE Rest == /\ \A p \in Call : CallShape(p)
                   /\ TidyCalls /\ OneOwner /\ HeldIsSigned /\ NewIsNew /\ TokensAreKept
<1>1. TypeOK'
  BY TypeStep DEF SessionInv
<1>2. ASSUME NEW q \in Call, NEW b \in Browser, Arrive(q, b) PROVE Rest'
  BY <1>2, StartStep
<1>3. ASSUME NEW q \in Call, GenerateTokens(q) PROVE Rest'
  BY <1>3, SignStep
<1>4. ASSUME NEW q \in Call, UpdateRefreshToken(q) \/ SwapTokens(q) \/ DeleteRefreshToken(q)
      PROVE  Rest'
  BY <1>4, RedisStep
<1>5. ASSUME NEW q \in Call, CheckToken(q) PROVE Rest'
  <2>1. CASE Goto(q, "sign")
    BY <1>5, <2>1, FoundStep DEF CheckToken
  <2>2. CASE Refuse(q)
    BY <1>5, <2>2, RefusedStep DEF CheckToken
  <2> QED
    BY <1>5, <2>1, <2>2 DEF CheckToken
<1>6. ASSUME NEW q \in Call, FindToken(q) PROVE Rest'
  <2>1. CASE Goto(q, "delete")
    BY <1>6, <2>1, FoundStep DEF FindToken
  <2>2. CASE Refuse(q)
    BY <1>6, <2>2, RefusedStep DEF FindToken
  <2> QED
    BY <1>6, <2>1, <2>2 DEF FindToken
<1>7. ASSUME NEW q \in Call, StoreFails(q) PROVE Rest'
  BY <1>7, RefusedStep DEF StoreFails
<1>8. ASSUME NEW q \in Call, CallDies(q) PROVE Rest'
  BY <1>8, RefusedStep DEF CallDies
<1>9. ASSUME NEW q \in Call, Answer(q) PROVE Rest'
  BY <1>9, AnswerStep
<1>10. ASSUME TimePasses PROVE Rest'
  BY <1>10, TimeStep
<1>11. ASSUME UNCHANGED vars PROVE Rest'
  BY <1>11 DEF vars, SessionInv, CallShape, TidyCalls, OneOwner, HeldIsSigned, Holds,
        NewIsNew, TokensAreKept, Kept, Expired
<1>12. Rest'
  BY <1>2, <1>3, <1>4, <1>5, <1>6, <1>7, <1>8, <1>9, <1>10, <1>11 DEF Next, Advance
<1> QED
  BY <1>1, <1>12, HeldKeysStep DEF SessionInv

(* Browsers, calls, their tokens and Redis agree in every reachable state. *)
THEOREM SessionsCorrect == Spec => []SessionInv
BY InitInv, NextInv, PTL DEF Spec

(* Every variable keeps its type. *)
THEOREM SessionTypes == Spec => []TypeOK
<1>1. SessionInv => TypeOK
  BY DEF SessionInv
<1> QED
  BY <1>1, SessionsCorrect, PTL

(* A browser that makes one call at a time is let in until its token       *)
(* expires, provided that no second token was signed in the second of its  *)
(* own: the guard never refuses it because of what another browser did.    *)
THEOREM SessionsAreKept == Spec => []SessionsLast
<1>1. SessionInv => SessionsLast
  <2> SUFFICES ASSUME SessionInv, NEW b \in Browser, Settled(b), cookie[b] \notin twice
               PROVE  Admits(b)
    BY DEF SessionsLast
  <2>1. cookie[b] \in Token
    BY DEF SessionInv, TypeOK, Settled
  <2>2. \A q \in Call : calls[q].browser = b => calls[q].pc # "answer"
    BY DEF Settled, InFlight
  <2>3. Kept(cookie[b])
    BY <2>1, <2>2 DEF SessionInv, TokensAreKept, Settled
  <2> QED
    BY <2>1, <2>3 DEF Settled, Kept, Admits, Present
<1> QED
  BY <1>1, SessionsCorrect, PTL

(* As long as every browser is tidy Redis keeps no session that nobody     *)
(* holds: refresh and logout clear what they replace.                      *)
THEOREM NothingIsLeftOver == Spec => []NoLeftovers
<1>1. SessionInv => NoLeftovers
  BY DEF SessionInv, KeysAreHeld, NoLeftovers
<1> QED
  BY <1>1, SessionsCorrect, PTL

(* What was logged out or rotated stays out: no step brings a token back   *)
(* that Redis does not hold and nobody is about to store.                  *)
THEOREM TokensStayGone == Spec => GoneTokensStayGone
<1> DEFINE Gone(t) == /\ ~Present(t)
                      /\ t < now
                      /\ \A q \in Call : calls[q].new = t =>
                              calls[q].pc \notin {"store", "swap"}
<1>1. TypeOK /\ [Next]_vars => [\A t \in Token : Gone(t) => ~Present(t)']_vars
  <2> SUFFICES ASSUME TypeOK, Next, NEW t \in Token, Gone(t) PROVE keys'[t] = 0
    BY DEF Present
  <2>1. keys[t] = 0
    BY DEF Present
  <2>2. ASSUME NEW q \in Call, Advance(q) PROVE keys'[t] = 0
    <3>1. ASSUME calls[q].pc \in {"store", "swap"} PROVE calls[q].new # t
      BY <3>1
    <3>2. CASE UpdateRefreshToken(q) \/ SwapTokens(q)
      BY <2>1, <3>1, <3>2 DEF UpdateRefreshToken, SwapTokens, TypeOK
    <3>3. CASE StoreFails(q) \/ DeleteRefreshToken(q)
      BY <2>1, <3>3 DEF StoreFails, DeleteRefreshToken, TypeOK
    <3> QED
      BY <2>1, <2>2, <3>2, <3>3
         DEF Advance, GenerateTokens, CheckToken, FindToken, Answer, CallDies
  <2>3. ASSUME NEW q \in Call, NEW b \in Browser, Arrive(q, b) PROVE keys'[t] = 0
    BY <2>1, <2>3 DEF Arrive, SignIn, Refresh, Logout, Start
  <2>4. CASE TimePasses
    BY <2>1, <2>4 DEF TimePasses, TypeOK
  <2> QED
    BY <2>2, <2>3, <2>4 DEF Next
<1> QED
  BY <1>1, SessionTypes, PTL DEF Spec, GoneTokensStayGone

=============================================================================
