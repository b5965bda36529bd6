--------------------------- MODULE ExchangeProofs ---------------------------
(***************************************************************************)
(* Two configured programs exchange a batch: ExchangeInv is inductive, for  *)
(* any surroundings, keys and batches, and with it every option comes from  *)
(* its strongest source, no file makes the agent panic, a batch arrives as  *)
(* it was sent if and only if the keys fit, and every answer that is signed *)
(* verifies.                                                                *)
(***************************************************************************)
EXTENDS Exchange, ConfigurationProofs, SequenceTheorems

\* What was packed is unpacked as it was.
LEMMA GunzipOfGzip == ASSUME NEW body PROVE Gunzip(Gzip(body)) = body
PROOF BY DEF Gunzip, Gzip

\* Configuration is over once both programs run: no stage of parseFlags is left.
LEMMA SettledWhenBothRun ==
  ASSUME BothRun, NEW p \in Programs
  PROVE  ~parseFlags(p)
PROOF
BY DEF BothRun, parseFlags, FirstPass, ApplyFile, ApplyEnvironment, SecondPass, Start

\* What the configuration part of the type invariant says is in ConfigInv.
LEMMA OptionsParse ==
  ASSUME ConfigInv, NEW p \in Programs
  PROVE  /\ DOMAIN cfg[p] = Options(p)
         /\ \A o \in Options(p) : Parses(o, cfg[p][o])
         /\ step[p] \in Steps
PROOF BY DEF ConfigInv, ProgramInv, OptionsInv

\* Before the first request there is no answer.
LEMMA RepliesInitInv == ExchangeInit => RepliesInv
PROOF
<1> SUFFICES ASSUME ExchangeInit PROVE RepliesInv
  OBVIOUS
<1>1. ConfigInv
  BY ConfigurationInitInv DEF ExchangeInit
<1>2. ExchangeTypeOK
  BY <1>1, OptionsParse DEF ExchangeTypeOK, ExchangeInit, NoAnswer, NotGot
<1>3. AnswerInv
  BY DEF AnswerInv, ExchangeInit, NoAnswer, NotGot, NoRequest
<1>4. AnswerVerifies
  BY DEF AnswerVerifies, ExchangeInit
<1> QED
  BY <1>1, <1>2, <1>3, <1>4 DEF RepliesInv, ExchangeInit

\* A step of parseFlags is before the first request and moves nothing of an exchange.
LEMMA ConfigureInv ==
  ASSUME RepliesInv, Configure
  PROVE  RepliesInv'
PROOF
<1>1. PICK p \in Programs : parseFlags(p)
  BY DEF Configure
<1>2. phase = "idle" /\ UNCHANGED exchangeVars
  BY <1>1, SettledWhenBothRun DEF RepliesInv, Configure
<1>3. UNCHANGED <<phase, sent, request, saved, answer, got>>
  BY <1>2 DEF exchangeVars
<1>4. ConfigInv'
  BY <1>1, parseFlagsInv DEF RepliesInv
<1>5. \A q \in Programs : /\ DOMAIN cfg'[q] = Options(q)
                          /\ \A o \in Options(q) : Parses(o, cfg'[q][o])
                          /\ step'[q] \in Steps
  BY <1>4 DEF ConfigInv, ProgramInv, OptionsInv
<1>6. ExchangeTypeOK'
  BY <1>3, <1>5 DEF RepliesInv, ExchangeTypeOK
<1>7. AnswerInv'
  BY <1>2, <1>3 DEF RepliesInv, AnswerInv
<1>8. AnswerVerifies'
  BY <1>2, <1>3 DEF AnswerVerifies
<1> QED
  BY <1>2, <1>3, <1>4, <1>6, <1>7, <1>8 DEF RepliesInv

\* A step of the exchange leaves the configuration alone.
LEMMA ConfigurationStays ==
  ASSUME ConfigInv, UNCHANGED configVars
  PROVE  /\ ConfigInv'
         /\ BothRun' = BothRun /\ ServerCfg' = ServerCfg
         /\ \A p \in Programs : /\ DOMAIN cfg'[p] = Options(p)
                                /\ \A o \in Options(p) : Parses(o, cfg'[p][o])
                                /\ step'[p] \in Steps
PROOF
<1>1. UNCHANGED <<input, cfg, step>>
  BY DEF configVars
<1>2. \A p \in Programs : ProgramInv(p)'
  BY <1>1, OtherProgram DEF ConfigInv
<1>3. ConfigInv'
  BY <1>1, <1>2 DEF ConfigInv
<1> QED
  BY <1>1, <1>3, OptionsParse DEF BothRun, ServerCfg

\* A step of the exchange is checked for the exchange alone.
LEMMA ExchangeStep ==
  ASSUME RepliesInv, UNCHANGED configVars, BothRun,
         phase' \in {"zip", "handler", "sign", "pack", "back", "done"},
         answer'.status \in {0, 200, 400, 403, 500}, got'.status \in {0, answer'.status, 500},
         AnswerInv', AnswerVerifies'
  PROVE  RepliesInv'
PROOF
<1>1. /\ ConfigInv' /\ BothRun'
      /\ \A p \in Programs : /\ DOMAIN cfg'[p] = Options(p)
                             /\ \A o \in Options(p) : Parses(o, cfg'[p][o])
                             /\ step'[p] \in Steps
  BY ConfigurationStays DEF RepliesInv
<1>2. ExchangeTypeOK'
  BY <1>1 DEF ExchangeTypeOK
<1> QED
  BY <1>1, <1>2 DEF RepliesInv

-----------------------------------------------------------------------------
(* The steps of an exchange *)

\* A request is on its way, or was never sent: no answer yet.
LEMMA ClientInv ==
  ASSUME RepliesInv, SendRequestToServer \/ OtherClient
  PROVE  RepliesInv'
PROOF
<1>1. /\ phase = "idle" /\ BothRun /\ UNCHANGED <<configVars, answer>>
      /\ \/ phase' = "zip" /\ got' = got /\ request'.acceptsGzip \in BOOLEAN
         \/ phase' = "done" /\ got'.status = 500 /\ request' = request
  <2>1. CASE SendRequestToServer
    <3> DEFINE e(n) == IF AgentCfg.cryptoKey = "" THEN Success(Batch(n))
                                                  ELSE Encrypt(AgentCfg.cryptoKey, Batch(n))
               h(n) == SignRequest(e(n).body, Batch(n), AgentCfg.key)
    <3>1. PICK n \in Lengths, inSubnet \in BOOLEAN :
            IF e(n).ok
              THEN /\ request' = [body |-> e(n).body, packed |-> FALSE, acceptsGzip |-> TRUE,
                                  hash |-> h(n), trusted |-> inSubnet]
                   /\ phase' = "zip" /\ UNCHANGED got
              ELSE phase' = "done" /\ got' = [NotGot EXCEPT !.status = 500] /\ UNCHANGED request
      BY <2>1 DEF SendRequestToServer
    <3> HIDE DEF e, h
    <3>2. CASE e(n).ok
      <4>1. request'.acceptsGzip = TRUE
        BY <3>1, <3>2
      <4> QED
        BY <2>1, <3>1, <3>2, <4>1 DEF SendRequestToServer
    <3>3. CASE ~e(n).ok
      <4>1. got'.status = 500
        BY <3>1, <3>3 DEF NotGot
      <4> QED
        BY <2>1, <3>1, <3>3, <4>1 DEF SendRequestToServer
    <3> QED
      BY <3>2, <3>3
  <2>2. CASE OtherClient
    <3>1. PICK n \in Lengths, packed, zipped, signed, accepts \in BOOLEAN :
            request' = [body |-> IF zipped THEN Gzip(Batch(n)) ELSE Batch(n),
                        packed |-> packed, acceptsGzip |-> accepts, trusted |-> TRUE,
                        hash |-> IF signed THEN SignRequest(Batch(n), Batch(n), AgentCfg.key) ELSE NoHash]
      BY <2>2 DEF OtherClient
    <3>2. request'.acceptsGzip \in BOOLEAN
      BY <3>1
    <3> QED
      BY <2>2, <3>2 DEF OtherClient
  <2> QED
    BY <2>1, <2>2
<1>2. answer.status = 0 /\ got.status = 0
  BY <1>1 DEF RepliesInv, AnswerInv
<1>3. AnswerInv'
  BY <1>1, <1>2 DEF RepliesInv, AnswerInv
<1>4. AnswerVerifies'
  BY <1>1, <1>2 DEF AnswerVerifies
<1>5. answer'.status = 0 /\ got'.status \in {0, 500}
  BY <1>1, <1>2
<1> QED
  BY <1>1, <1>3, <1>4, <1>5, ExchangeStep

\* ZipMiddleware refuses with 400 what is announced as gzip and is not, without a
\* signature.
LEMMA ZipInInv ==
  ASSUME RepliesInv, ZipIn
  PROVE  RepliesInv'
PROOF
<1>1. phase = "zip" /\ BothRun /\ UNCHANGED configVars /\ got' = got /\ got.status = 0
  BY DEF ZipIn, RepliesInv, AnswerInv
<1>2. CASE request.packed /\ ~isGzipBody(request.body)
  <2>1. /\ answer' = [NoAnswer EXCEPT !.status = 400] /\ phase' = "back" /\ request' = request
    BY <1>2 DEF ZipIn
  <2>2. AnswerInv'
    BY <1>1, <1>2, <2>1 DEF RepliesInv, AnswerInv, NoAnswer
  <2> QED
    BY <1>1, <2>1, <2>2, ExchangeStep DEF NoAnswer, AnswerVerifies
<1>3. CASE ~(request.packed /\ ~isGzipBody(request.body))
  <2>1. /\ request' = [request EXCEPT !.body = IF request.packed THEN Gunzip(@) ELSE @]
        /\ answer' = [answer EXCEPT !.gzip = request.acceptsGzip]
        /\ phase' = "handler"
    BY <1>3 DEF ZipIn
  <2>2. /\ answer' = [status |-> answer.status, body |-> answer.body,
                      hash |-> answer.hash, gzip |-> request.acceptsGzip]
        /\ answer.status = 0 /\ request.acceptsGzip \in BOOLEAN
    BY <1>1, <2>1 DEF RepliesInv, AnswerInv
  <2>3. request'.acceptsGzip = request.acceptsGzip
    BY <2>1
  <2>4. AnswerInv'
    BY <1>1, <2>1, <2>2, <2>3 DEF RepliesInv, AnswerInv
  <2>5. answer'.status = 0 /\ got'.status = 0 /\ AnswerVerifies'
    BY <1>1, <2>1, <2>2 DEF AnswerVerifies
  <2> QED
    BY <1>1, <2>1, <2>4, <2>5, ExchangeStep
<1> QED
  BY <1>2, <1>3

\* The handler answers, whatever it makes of the body.
LEMMA HandleInv ==
  ASSUME RepliesInv, Handle
  PROVE  RepliesInv'
PROOF
<1>1. /\ phase = "handler" /\ phase' = "sign" /\ BothRun
      /\ UNCHANGED configVars /\ request' = request /\ got' = got /\ got.status = 0
  BY DEF Handle, RepliesInv, AnswerInv
<1>2. /\ answer'.status \in {200, 400, 403, 500}
      /\ answer' = [status |-> answer'.status, body |-> answer'.body,
                    hash |-> answer.hash, gzip |-> answer.gzip]
  <2> DEFINE read == readAndVerifyRequestBody(request.body, request.hash)
  <2>1. \/ Reply(403, NoBody) \/ Reply(400, Message("error"))
        \/ Reply(200, read.body) \/ Reply(500, Message("error"))
    <3> HIDE DEF read
    <3> QED
      BY DEF Handle, read
  <2> HIDE DEF read
  <2>2. ASSUME NEW s \in {200, 400, 403, 500}, NEW b, Reply(s, b)
        PROVE  /\ answer'.status = s
               /\ answer' = [status |-> s, body |-> b,
                             hash |-> answer.hash, gzip |-> answer.gzip]
    BY <2>2 DEF Reply, RepliesInv, AnswerInv
  <2>3. ASSUME NEW s \in {200, 400, 403, 500}, NEW b, Reply(s, b)
        PROVE  /\ answer'.status \in {200, 400, 403, 500}
               /\ answer' = [status |-> answer'.status, body |-> answer'.body,
                             hash |-> answer.hash, gzip |-> answer.gzip]
    BY <2>2, <2>3
  <2> QED
    BY <2>1, <2>3
<1>4. AnswerInv'
  BY <1>1, <1>2 DEF RepliesInv, AnswerInv
<1>5. answer'.status \in {200, 400, 403, 500} /\ got'.status = 0 /\ AnswerVerifies'
  BY <1>1, <1>2 DEF AnswerVerifies
<1> QED
  BY <1>1, <1>4, <1>5, ExchangeStep

\* HashResponseMiddleware signs the body it has buffered.
LEMMA HashResponseInv ==
  ASSUME RepliesInv, HashResponse
  PROVE  RepliesInv'
PROOF
<1> DEFINE h == IF ServerCfg.key = "" THEN NoHash ELSE SignBody(answer.body, ServerCfg.key)
<1>1. /\ phase = "sign" /\ phase' = "pack" /\ BothRun
      /\ UNCHANGED configVars /\ request' = request /\ got' = got /\ got.status = 0
      /\ answer.status # 0 /\ answer.status \in {0, 200, 400, 403, 500}
      /\ answer' = [answer EXCEPT !.hash = h]
  BY DEF HashResponse, RepliesInv, AnswerInv, ExchangeTypeOK
<1>2. answer' = [status |-> answer.status, body |-> answer.body, hash |-> h, gzip |-> answer.gzip]
  <2> HIDE DEF h
  <2> QED
    BY <1>1 DEF RepliesInv, AnswerInv
<1>3. SignedFor(answer.body)'
  <2>1. ServerCfg' = ServerCfg
    BY <1>1, ConfigurationStays DEF RepliesInv
  <2>2. answer'.hash = h /\ answer'.body = answer.body
    <3> HIDE DEF h
    <3> QED
      BY <1>2
  <2> QED
    BY <2>1, <2>2 DEF SignedFor
<1> HIDE DEF h
<1>4. AnswerInv'
  BY <1>1, <1>2, <1>3 DEF RepliesInv, AnswerInv
<1>5. answer'.status = answer.status /\ got'.status = 0 /\ AnswerVerifies'
  BY <1>1, <1>2 DEF AnswerVerifies
<1> QED
  BY <1>1, <1>4, <1>5, ExchangeStep

\* ZipMiddleware packs what is signed, and unpacked it is what was signed.
LEMMA ZipOutInv ==
  ASSUME RepliesInv, ZipOut
  PROVE  RepliesInv'
PROOF
<1> DEFINE b == IF answer.gzip THEN Gzip(answer.body) ELSE answer.body
<1>1. /\ phase = "pack" /\ phase' = "back" /\ BothRun
      /\ UNCHANGED configVars /\ request' = request /\ got' = got /\ got.status = 0
      /\ answer.status # 0 /\ answer.status \in {0, 200, 400, 403, 500}
      /\ answer' = [answer EXCEPT !.body = b] /\ SignedFor(answer.body)
  BY DEF ZipOut, RepliesInv, AnswerInv, ExchangeTypeOK
<1>2. (IF answer.gzip THEN Gunzip(b) ELSE b) = answer.body
  BY GunzipOfGzip
<1> HIDE DEF b
<1>3. answer' = [status |-> answer.status, body |-> b, hash |-> answer.hash, gzip |-> answer.gzip]
  BY <1>1 DEF RepliesInv, AnswerInv
<1>4. SignedFor(AsRead)'
  <2>1. AsRead' = answer.body
    BY <1>2, <1>3 DEF AsRead
  <2>2. answer'.hash = answer.hash /\ ServerCfg' = ServerCfg
    BY <1>1, <1>3, ConfigurationStays DEF RepliesInv
  <2> QED
    BY <1>1, <2>1, <2>2 DEF SignedFor
<1>5. AnswerInv'
  BY <1>1, <1>3, <1>4 DEF RepliesInv, AnswerInv
<1>6. answer'.status = answer.status /\ got'.status = 0 /\ AnswerVerifies'
  BY <1>1, <1>3 DEF AnswerVerifies
<1> QED
  BY <1>1, <1>5, <1>6, ExchangeStep

\* The client unpacks what ZipMiddleware packed.
LEMMA UnzipInv ==
  ASSUME RepliesInv, Unzip
  PROVE  RepliesInv'
PROOF
<1> DEFINE b == IF answer.gzip THEN Gunzip(answer.body) ELSE answer.body
<1>0. b = AsRead
  BY DEF AsRead
<1>1. /\ phase = "back" /\ phase' = "done" /\ BothRun
      /\ UNCHANGED configVars /\ request' = request /\ answer' = answer
      /\ answer.status \in {0, 200, 400, 403, 500}
      /\ got' = [status |-> answer.status, hash |-> answer.hash, body |-> b]
      /\ (answer.status = 400 /\ request.packed) \/ SignedFor(b)
  BY <1>0 DEF Unzip, RepliesInv, AnswerInv, ExchangeTypeOK
<1>2. ServerCfg' = ServerCfg
  BY <1>1, ConfigurationStays DEF RepliesInv
<1> HIDE DEF b
<1>3. AnswerVerifies'
  BY <1>1, <1>2 DEF AnswerVerifies, SignedFor
<1>4. AnswerInv'
  BY <1>1 DEF RepliesInv, AnswerInv
<1>5. answer'.status = answer.status /\ got'.status = answer.status
  BY <1>1
<1> QED
  BY <1>1, <1>3, <1>4, <1>5, ExchangeStep

\* A step that moves nothing.
LEMMA StutterInv ==
  ASSUME RepliesInv, UNCHANGED <<configVars, exchangeVars>>
  PROVE  RepliesInv'
PROOF
<1>1. UNCHANGED <<configVars, phase, sent, request, saved, answer, got>>
  BY DEF exchangeVars
<1>2. /\ ConfigInv' /\ BothRun' = BothRun /\ ServerCfg' = ServerCfg
      /\ \A p \in Programs : /\ DOMAIN cfg'[p] = Options(p)
                             /\ \A o \in Options(p) : Parses(o, cfg'[p][o])
                             /\ step'[p] \in Steps
  BY <1>1, ConfigurationStays DEF RepliesInv
<1>3. ExchangeTypeOK'
  BY <1>1, <1>2 DEF RepliesInv, ExchangeTypeOK
<1>4. AnswerInv'
  <2>1. SignedFor(answer.body)' = SignedFor(answer.body) /\ SignedFor(AsRead)' = SignedFor(AsRead)
    BY <1>1, <1>2 DEF SignedFor, AsRead
  <2> QED
    BY <1>1, <2>1 DEF RepliesInv, AnswerInv
<1>5. AnswerVerifies'
  BY <1>1, <1>2 DEF RepliesInv, AnswerVerifies
<1> QED
  BY <1>1, <1>2, <1>3, <1>4, <1>5 DEF RepliesInv

-----------------------------------------------------------------------------
(* Blocks: a body is cut into chunks and put together again *)

\* Each g[i] joins the first i of the n sequences in s.
Joins(g, s, n) ==
  /\ g = [i \in 1..n |-> g[i]]
  /\ g[1] = s[1]
  /\ \A i \in 2..n : g[i] = g[i - 1] \o s[i]

\* FlattenSeq joins all of them.
LEMMA FlattenPrefixes ==
  ASSUME NEW s, NEW g, NEW n \in Nat \ {0}, Len(s) = n, Joins(g, s, n)
  PROVE  FlattenSeq(s) = g[n]
<1> USE DEF Joins
<1> DEFINE Step(f) == [i \in 1..n |-> IF i = 1 THEN s[i] ELSE f[i - 1] \o s[i]]
           h == CHOOSE f : f = Step(f)
<1>1. FlattenSeq(s) = h[n]
  BY DEF FlattenSeq
<1>2. g = Step(g)
  <2>1. ASSUME NEW i \in 1..n PROVE g[i] = IF i = 1 THEN s[i] ELSE g[i - 1] \o s[i]
    <3>1. i # 1 => i \in 2..n
      OBVIOUS
    <3> QED  BY <3>1, Zenon
  <2> QED  BY <2>1
<1>3. h = Step(h)
  <2> HIDE DEF Step
  <2> QED  BY <1>2
<1>4. \A i \in 1..n : h[i] = IF i = 1 THEN s[i] ELSE h[i - 1] \o s[i]
  <2> HIDE DEF h
  <2> QED  BY <1>3
<1> HIDE DEF h, Step
<1> DEFINE Bad == {i \in 1..n : h[i] # g[i]}
<1>5. Bad = {}
  <2> SUFFICES ASSUME Bad # {} PROVE FALSE
    OBVIOUS
  <2>1. Bad \subseteq Nat
    OBVIOUS
  <2>2. PICK i \in Bad : \A j \in Bad : i <= j
    <3> HIDE DEF Bad
    <3> QED  BY <2>1, LeastExists
  <2>3. i \in 1..n /\ h[i] # g[i]
    OBVIOUS
  <2>4. i # 1 /\ i \in 2..n
    BY <1>4, <2>3
  <2>5. i - 1 \in 1..n /\ i - 1 \notin Bad
    <3>1. i - 1 \in 1..n /\ ~(i <= i - 1)
      BY <2>4
    <3> HIDE DEF Bad
    <3> QED  BY <2>2, <3>1
  <2>6. h[i - 1] = g[i - 1]
    BY <2>5
  <2>7. h[i] = h[i - 1] \o s[i] /\ g[i] = g[i - 1] \o s[i]
    BY <1>4, <2>3, <2>4, Zenon
  <2> QED  BY <2>3, <2>6, <2>7, Zenon
<1> QED  BY <1>1, <1>5

\* A division, its quotient and its remainder.
LEMMA Division ==
  ASSUME NEW m \in Nat \ {0}, NEW a \in Int, NEW q \in Int, NEW r \in Int,
         q = a \div m, r = a % m
  PROVE  a = m * q + r /\ r \in 0..(m - 1)
OBVIOUS

\* The lesser of two numbers.
LEMMA MinOfTwo == ASSUME NEW a \in Int, NEW b \in Int
                  PROVE  Min({a, b}) = IF a <= b THEN a ELSE b
BY DEF Min

\* The number of blocks that c bytes each cover len bytes, and not one fewer.
LEMMA BlocksCover ==
  ASSUME NEW len \in Nat \ {0}, NEW c \in Nat \ {0}, NEW B, B = (len + c - 1) \div c
  PROVE  B \in Nat \ {0} /\ B * c >= len /\ (B - 1) * c < len
<1> DEFINE a == len + c - 1
           r == a % c
<1>1. a \in Nat /\ a >= c /\ a \div c \in Int /\ r \in Int
  OBVIOUS
<1>2. a = c * B + r /\ r \in 0..(c - 1)
  <2> HIDE DEF a
  <2>1. B = a \div c
    BY DEF a
  <2>2. B \in Int
    BY <1>1, <2>1
  <2> QED  BY <1>1, <2>1, <2>2
<1>3. B \in Int
  BY <1>1
<1> HIDE DEF r
<1>4. c * B >= len /\ c * B < len + c /\ c * B >= 1
  BY <1>2, <1>3
<1>5. B >= 1
  BY <1>3, <1>4
<1>6. (B - 1) * c = c * B - c /\ B * c = c * B
  BY <1>3
<1> QED  BY <1>3, <1>4, <1>5, <1>6

\* Chunks of c bytes, one after the other, are the whole again.
LEMMA FlattenChunks ==
  ASSUME NEW S, NEW data \in Seq(S), data # <<>>, NEW c \in Nat \ {0},
         NEW B, B = (Len(data) + c - 1) \div c,
         NEW s, s = [i \in 1..B |-> SubSeq(data, (i - 1) * c + 1, Min({i * c, Len(data)}))]
  PROVE  FlattenSeq(s) = data
<1> DEFINE len == Len(data)
           chunk(i) == SubSeq(data, (i - 1) * c + 1, Min({i * c, len}))
           prefix(i) == SubSeq(data, 1, Min({i * c, len}))
           g == [i \in 1..B |-> prefix(i)]
<1>1. len \in Nat \ {0}
  OBVIOUS
<1>2. B \in Nat \ {0} /\ B * c >= len /\ (B - 1) * c < len
  <2> HIDE DEF len
  <2> QED  BY <1>1, BlocksCover DEF len
<1>3. Len(s) = B /\ DOMAIN s = 1..B /\ g = [i \in 1..B |-> g[i]]
  <2>1. s = [i \in 1..B |-> chunk(i)]
    OBVIOUS
  <2> HIDE DEF chunk, prefix
  <2> QED  BY <1>2, <2>1
<1>4. g[1] = s[1]
  <2>1. (1 - 1) * c + 1 = 1 /\ 1 \in 1..B
    BY <1>2
  <2> QED  BY <2>1
<1>5. ASSUME NEW i \in 2..B PROVE g[i] = g[i - 1] \o s[i]
  <2> DEFINE m == (i - 1) * c
             n == Min({i * c, len})
  <2>1. m \in Nat /\ m < len
    <3>1. i - 1 \in Nat /\ i - 1 <= B - 1
      BY <1>2
    <3>2. (i - 1) * c <= (B - 1) * c /\ (i - 1) * c \in Nat /\ (B - 1) * c \in Nat
      BY <1>2, <3>1
    <3> QED  BY <1>1, <1>2, <3>2
  <2>2. i * c = m + c /\ i * c \in Nat
    BY <1>2
  <2>3. n \in m..len
    <3> HIDE DEF m, len
    <3>1. n = IF i * c <= len THEN i * c ELSE len
      BY <1>1, <2>2, MinOfTwo
    <3> QED  BY <1>1, <2>1, <2>2, <3>1
  <2>4. Min({m, len}) = m
    <3> HIDE DEF m, len
    <3> QED  BY <1>1, <2>1, MinOfTwo
  <2>5. SubSeq(data, 1, m) \o SubSeq(data, m + 1, n) = SubSeq(data, 1, n)
    <3> HIDE DEF m, n
    <3> QED  BY <2>1, <2>3, ConcatAdjacentSubSeq
  <2>6. g[i] = SubSeq(data, 1, n) /\ g[i - 1] = SubSeq(data, 1, m) /\ s[i] = SubSeq(data, m + 1, n)
    <3>1. i \in 1..B /\ i - 1 \in 1..B
      BY <1>2
    <3>2. g[i] = SubSeq(data, 1, n) /\ s[i] = SubSeq(data, m + 1, n)
      BY <3>1
    <3>3. g[i - 1] = SubSeq(data, 1, Min({(i - 1) * c, len}))
      BY <3>1
    <3> QED  BY <2>4, <3>2, <3>3
  <2> HIDE DEF g, m, n
  <2> QED  BY <2>5, <2>6
<1>6. g[B] = data
  <2>1. B * c \in Nat
    BY <1>2
  <2>2. Min({B * c, len}) = len
    <3> HIDE DEF len
    <3> QED  BY <1>1, <1>2, <2>1, MinOfTwo
  <2>3. g[B] = prefix(B)
    <3> HIDE DEF prefix
    <3> QED  BY <1>2
  <2> QED  BY <2>2, <2>3, SubSeqFull
<1> HIDE DEF g
<1>7. FlattenSeq(s) = g[B]
  <2>1. \A i \in 2..B : g[i] = g[i - 1] \o s[i]
    BY <1>5, Zenon
  <2>2. Joins(g, s, B)
    BY <1>3, <1>4, <2>1, Zenon DEF Joins
  <2> HIDE DEF prefix, chunk
  <2> QED  BY <1>2, <1>3, <2>2, FlattenPrefixes
<1> QED  BY <1>6, <1>7

-----------------------------------------------------------------------------
(* Encrypt and Decrypt *)

\* The number of blocks for a body, and what each of them holds.
Blocks(k, data) == (Len(data) + ChunkSize(k) - 1) \div ChunkSize(k)
Chunk(k, data, n) ==
  SubSeq(data, (n - 1) * ChunkSize(k) + 1, Min({n * ChunkSize(k), Len(data)}))

\* A quotient and a remainder.
LEMMA Quotient ==
  ASSUME NEW m \in Nat \ {0}, NEW q \in Nat, NEW r \in 0..(m - 1), NEW a, a = m * q + r
  PROVE  a \div m = q /\ a % m = r
OBVIOUS

\* The place of byte i of block n among the bytes of all blocks.
LEMMA PlaceOfByte ==
  ASSUME NEW m \in Nat \ {0}, NEW blocks \in Nat \ {0}, NEW n \in 1..blocks, NEW i \in 1..m,
         NEW j, j = (n - 1) * m + i
  PROVE  /\ j \in 1..(blocks * m)
         /\ (j - 1) \div m + 1 = n /\ (j - 1) % m = i - 1
<1> DEFINE q == n - 1
           p == blocks - 1
<1>1. q \in Nat /\ p \in Nat /\ q <= p /\ n = q + 1 /\ blocks = p + 1
  OBVIOUS
<1> HIDE DEF q, p
<1>2. q * m \in Nat /\ p * m \in Nat /\ q * m <= p * m
  BY <1>1
<1>3. blocks * m = p * m + m
  BY <1>1
<1>4. j = q * m + i /\ j \in Nat /\ blocks * m \in Nat
  BY <1>1, <1>2
<1>5. j - 1 = m * q + (i - 1) /\ i - 1 \in 0..(m - 1)
  BY <1>1, <1>4
<1>6. (j - 1) \div m = q /\ (j - 1) % m = i - 1
  <2> DEFINE a == j - 1
             r == i - 1
  <2> HIDE DEF a, r
  <2>1. a = m * q + r /\ r \in 0..(m - 1)
    BY <1>5 DEF a, r
  <2>2. a \div m = q /\ a % m = r
    BY <1>1, <2>1, Quotient
  <2> QED  BY <2>2 DEF a, r
<1> QED  BY <1>1, <1>2, <1>3, <1>4, <1>6

\* What Encrypt makes of a body, byte by byte.
LEMMA EncryptedBytes ==
  ASSUME NEW k \in KeyPaths, NEW S, NEW data \in Seq(S), data # <<>>, ChunkSize(k) > 0
  PROVE  LET b == Encrypt(k, data).body
             m == KeySize[k]
             blocks == Blocks(k, data)
         IN  /\ Encrypt(k, data).ok
             /\ blocks \in Nat \ {0} /\ m \in Nat \ {0}
             /\ Len(b) = blocks * m
             /\ \A n \in 1..blocks : \A i \in 1..m :
                  b[(n - 1) * m + i] = [rsa |-> k, part |-> Chunk(k, data, n), at |-> i - 1]
<1> DEFINE m == KeySize[k]
           c == ChunkSize(k)
           blocks == Blocks(k, data)
           byte(i) == [rsa |-> k, part |-> Chunk(k, data, (i - 1) \div m + 1), at |-> (i - 1) % m]
           b == Encrypt(k, data).body
<1>1. m \in Nat \ {0} /\ c \in Nat \ {0} /\ Len(data) \in Nat \ {0}
  BY KeySizeAssumption, OverheadAssumption DEF ChunkSize
<1>2. blocks \in Nat \ {0}
  <2>1. blocks = (Len(data) + c - 1) \div c
    BY DEF Blocks
  <2> HIDE DEF c, blocks
  <2> QED  BY <1>1, <2>1, BlocksCover
<1>3. Encrypt(k, data) = Success([i \in 1..(blocks * m) |-> byte(i)])
  <2>1. c <= 0 <=> FALSE
    BY <1>1
  <2> QED  BY <2>1 DEF Encrypt, NoBody, Blocks, Chunk
<1>4. Encrypt(k, data).ok /\ b = [i \in 1..(blocks * m) |-> byte(i)]
  <2> HIDE DEF byte, m, blocks
  <2> QED  BY <1>3 DEF Success
<1>5. blocks * m \in Nat
  <2> HIDE DEF m, blocks
  <2> QED  BY <1>1, <1>2
<1>6. Len(b) = blocks * m
  <2> HIDE DEF byte, m, b, blocks
  <2> QED  BY <1>4, <1>5
<1>7. ASSUME NEW n \in 1..blocks, NEW i \in 1..m
      PROVE  b[(n - 1) * m + i] = [rsa |-> k, part |-> Chunk(k, data, n), at |-> i - 1]
  <2> DEFINE j == (n - 1) * m + i
  <2>1. j \in 1..(blocks * m) /\ (j - 1) \div m + 1 = n /\ (j - 1) % m = i - 1
    <3> HIDE DEF m, blocks
    <3> QED  BY <1>1, <1>2, PlaceOfByte
  <2>2. b[j] = byte(j)
    <3> HIDE DEF byte, m, j, blocks, b
    <3> QED  BY <1>4, <2>1
  <2>3. byte(j) = [rsa |-> k, part |-> Chunk(k, data, n), at |-> i - 1]
    <3> HIDE DEF m, j, blocks
    <3> QED  BY <2>1
  <2> QED  BY <2>2, <2>3
<1> HIDE DEF b, m, blocks
<1> QED  BY <1>1, <1>2, <1>4, <1>6, <1>7 DEF b, m, blocks

\* Decrypt undoes Encrypt with the same key: the chunks fill whole blocks, the last
\* of them may be short.
LEMMA DecryptsOwn ==
  ASSUME NEW k \in KeyPaths, NEW S, NEW data \in Seq(S), data # <<>>, ChunkSize(k) > 0
  PROVE  Decrypt(k, Encrypt(k, data).body) = Success(data)
<1> DEFINE m == KeySize[k]
           c == ChunkSize(k)
           blocks == Blocks(k, data)
           chunk(n) == Chunk(k, data, n)
           b == Encrypt(k, data).body
           first(n) == b[(n - 1) * m + 1].part
<1>1. /\ blocks \in Nat \ {0} /\ m \in Nat \ {0}
      /\ Len(b) = blocks * m
      /\ \A n \in 1..blocks : \A i \in 1..m :
           b[(n - 1) * m + i] = [rsa |-> k, part |-> chunk(n), at |-> i - 1]
  <2> HIDE DEF chunk
  <2> QED  BY EncryptedBytes DEF chunk
<1>2. FlattenSeq([n \in 1..blocks |-> chunk(n)]) = data
  <2>1. c \in Nat \ {0}
    BY KeySizeAssumption, OverheadAssumption DEF ChunkSize
  <2>2. blocks = (Len(data) + c - 1) \div c
    BY DEF Blocks
  <2>3. \A n : chunk(n) = SubSeq(data, (n - 1) * c + 1, Min({n * c, Len(data)}))
    BY DEF Chunk
  <2> DEFINE s == [n \in 1..blocks |-> chunk(n)]
  <2>4. s = [n \in 1..blocks |-> SubSeq(data, (n - 1) * c + 1, Min({n * c, Len(data)}))]
    <3> HIDE DEF chunk, blocks, c
    <3> QED  BY <2>3
  <2> HIDE DEF chunk, c, blocks, s
  <2>5. FlattenSeq(s) = data
    BY <2>1, <2>2, <2>4, FlattenChunks
  <2> QED  BY <2>5 DEF s
<1> HIDE DEF blocks, chunk, b, m
<1>3. Len(b) % m = 0 /\ Len(b) \div m = blocks
  <2>1. Len(b) = m * blocks + 0 /\ 0 \in 0..(m - 1) /\ blocks \in Nat
    BY <1>1
  <2> QED  BY <1>1, <2>1, Quotient
<1>4. ASSUME NEW n \in 1..blocks PROVE first(n) = chunk(n)
  <2>1. 1 \in 1..m
    BY <1>1
  <2>2. b[(n - 1) * m + 1] = [rsa |-> k, part |-> chunk(n), at |-> 1 - 1]
    BY <1>1, <2>1
  <2> QED  BY <2>2
<1>5. ASSUME NEW n \in 1..blocks, NEW i \in 1..m
      PROVE  /\ "rsa" \in DOMAIN b[(n - 1) * m + i] /\ b[(n - 1) * m + i].rsa = k
             /\ b[(n - 1) * m + i].at = i - 1
             /\ b[(n - 1) * m + i].part = first(n)
  <2>1. b[(n - 1) * m + i] = [rsa |-> k, part |-> chunk(n), at |-> i - 1]
    BY <1>1
  <2> HIDE DEF first
  <2> QED  BY <1>4, <2>1
<1>6. [n \in 1..blocks |-> first(n)] = [n \in 1..blocks |-> chunk(n)]
  <2> HIDE DEF first
  <2> QED  BY <1>4
<1>7. Decrypt(k, b) = Success(FlattenSeq([n \in 1..blocks |-> first(n)]))
  BY <1>3, <1>5 DEF Decrypt, m
<1> QED  BY <1>2, <1>6, <1>7 DEF b

\* A body that does not begin with a byte of a block for the key is refused.
LEMMA DecryptsNoOther ==
  ASSUME NEW k \in KeyPaths, NEW b, Len(b) \in Nat \ {0},
         "rsa" \in DOMAIN b[1] => b[1].rsa # k
  PROVE  Decrypt(k, b) = Failure
<1> DEFINE m == KeySize[k]
<1>1. m \in Nat \ {0}
  BY KeySizeAssumption
<1> HIDE DEF m
<1>2. Len(b) % m = 0 => Len(b) \div m >= 1
  <2> DEFINE q == Len(b) \div m
             r == Len(b) % m
  <2>1. q \in Int /\ r \in Int
    BY <1>1
  <2>2. Len(b) = m * q + r
    BY <1>1, <2>1, Division
  <2> HIDE DEF q, r
  <2>3. r = 0 => q >= 1
    BY <1>1, <2>1, <2>2
  <2> QED  BY <2>3 DEF q, r
<1>3. (1 - 1) * m + 1 = 1 /\ 1 \in 1..m
  BY <1>1
<1>4. ASSUME Len(b) % m = 0,
             \A n \in 1..(Len(b) \div m) : \A i \in 1..m :
               "rsa" \in DOMAIN b[(n - 1) * m + i] /\ b[(n - 1) * m + i].rsa = k
      PROVE  FALSE
  <2>1. 1 \in 1..(Len(b) \div m)
    BY <1>1, <1>2, <1>4
  <2>2. "rsa" \in DOMAIN b[(1 - 1) * m + 1] /\ b[(1 - 1) * m + 1].rsa = k
    BY <1>3, <1>4, <2>1
  <2> QED  BY <1>3, <2>2
<1> QED  BY <1>4 DEF Decrypt, m

-----------------------------------------------------------------------------
(* What the handler makes of a body *)

\* A batch is a JSON text, and begins like no other body.
LEMMA BatchShape ==
  ASSUME NEW n \in Nat \ {0}
  PROVE  /\ Batch(n) \in Seq({[json |-> i, length |-> n] : i \in 1..n})
         /\ Len(Batch(n)) = n /\ Batch(n) # NoBody
         /\ Batch(n)[1] = [json |-> 1, length |-> n]
         /\ "rsa" \notin DOMAIN Batch(n)[1]
         /\ IsJson(Batch(n)) /\ ~isGzipBody(Batch(n))
PROOF
<1>1. Len(Batch(n)) = n /\ Batch(n)[1] = [json |-> 1, length |-> n]
  BY DEF Batch
<1>2. Batch(n) \in Seq({[json |-> i, length |-> n] : i \in 1..n})
  BY DEF Batch
<1>3. Batch(n) # NoBody
  BY <1>1 DEF NoBody
<1>4. IsJson(Batch(n))
  BY <1>1, <1>3 DEF IsJson
<1>5. "rsa" \notin DOMAIN Batch(n)[1]
  BY <1>1
<1>6. ~isGzipBody(Batch(n))
  <2>1. "json" \in DOMAIN Batch(n)[1] /\ "json" \notin DOMAIN [magic |-> 1]
    BY <1>1
  <2>2. Batch(n)[1] # [magic |-> 1] /\ 1 \in 1..2
    BY <2>1
  <2> HIDE DEF Batch
  <2> QED
    BY <2>2 DEF isGzipBody
<1> QED
  BY <1>1, <1>2, <1>3, <1>4, <1>5, <1>6

\* So does a gzip stream.
LEMMA GzipShape ==
  ASSUME NEW body
  PROVE  /\ Len(Gzip(body)) = 3 /\ isGzipBody(Gzip(body))
         /\ "rsa" \notin DOMAIN Gzip(body)[1]
PROOF
BY DEF Gzip, isGzipBody

\* And what is encrypted.
LEMMA SealedShape ==
  ASSUME NEW n \in Nat \ {0}, NEW k \in KeyPaths, ChunkSize(k) > 0,
         NEW body, body = Encrypt(k, Batch(n)).body
  PROVE  /\ Len(body) \in Nat \ {0} /\ body # NoBody
         /\ "rsa" \in DOMAIN body[1] /\ body[1].rsa = k
         /\ ~isGzipBody(body) /\ ~IsJson(body)
         /\ Decrypt(k, body) = Success(Batch(n))
PROOF
<1> DEFINE data == Batch(n)
           blocks == Blocks(k, data)
           m == KeySize[k]
<1>1. data \in Seq({[json |-> i, length |-> n] : i \in 1..n}) /\ data # <<>>
  BY BatchShape DEF NoBody
<1>2. Decrypt(k, body) = Success(data)
  <2> HIDE DEF data
  <2> QED
    BY <1>1, DecryptsOwn DEF data
<1>3. /\ blocks \in Nat \ {0} /\ m \in Nat \ {0} /\ Len(body) = blocks * m
      /\ \A q \in 1..blocks : \A i \in 1..m :
           body[(q - 1) * m + i] = [rsa |-> k, part |-> Chunk(k, data, q), at |-> i - 1]
  <2> HIDE DEF data
  <2> QED
    BY <1>1, EncryptedBytes DEF data
<1> HIDE DEF data, blocks, m
<1>4. Len(body) \in Nat \ {0}
  BY <1>3
<1>5. body[1] = [rsa |-> k, part |-> Chunk(k, data, 1), at |-> 0]
  <2>1. 1 \in 1..blocks /\ 1 \in 1..m /\ (1 - 1) * m + 1 = 1 /\ 1 - 1 = 0
    BY <1>3
  <2>2. body[(1 - 1) * m + 1] = [rsa |-> k, part |-> Chunk(k, data, 1), at |-> 1 - 1]
    BY <1>3, <2>1
  <2> QED
    BY <2>1, <2>2
<1>6. "rsa" \in DOMAIN body[1] /\ body[1].rsa = k
  BY <1>5
<1>7. body # NoBody
  BY <1>4 DEF NoBody
<1>8. ~isGzipBody(body)
  <2>1. body[1] # [magic |-> 1] /\ 1 \in 1..2
    BY <1>6
  <2> QED
    BY <2>1 DEF isGzipBody
<1>9. ~IsJson(body)
  <2>1. body # Batch(Len(body))
    BY <1>4, <1>6, BatchShape
  <2> QED
    BY <2>1 DEF IsJson
<1> QED
  BY <1>2, <1>4, <1>6, <1>7, <1>8, <1>9 DEF data

\* What remains of a body that is decrypted and unpacked.
Decrypted(body) ==
  IF ServerCfg.cryptoKey = "" THEN Success(body) ELSE Decrypt(ServerCfg.cryptoKey, body)
Unpacked(body) == IF isGzipBody(body) THEN Gunzip(body) ELSE body

\* Is there a signature, and not the one the server expects?
Forged(body, hash) ==
  ServerCfg.key # "" /\ hash # NoHash /\ hash # SignBody(body, ServerCfg.key)

\* The three stages of readAndVerifyRequestBody.
LEMMA ReadInStages ==
  ASSUME NEW body, NEW hash
  PROVE  /\ ~Decrypted(body).ok => readAndVerifyRequestBody(body, hash) = Failure
         /\ \A plain : Decrypted(body).ok /\ plain = Unpacked(Decrypted(body).body) =>
              readAndVerifyRequestBody(body, hash) =
                IF Forged(plain, hash) THEN Failure ELSE Success(plain)
PROOF
BY DEF readAndVerifyRequestBody, Decrypted, Unpacked, Forged

\* A failure and a success are told apart.
LEMMA Outcomes ==
  /\ ~Failure.ok
  /\ \A body : Success(body).ok /\ Success(body).body = body
PROOF
BY DEF Failure, Success

\* A body is read if and only if the keys fit, and what is read is what was sent.
LEMMA FittingIsRead ==
  ASSUME RequestInv, KeysRead, BothRun, phase \in {"handler", "sign"},
         NEW read, read = readAndVerifyRequestBody(request.body, request.hash)
  PROVE  /\ (read.ok /\ IsJson(read.body)) <=> KeysFit
         /\ KeysFit => read.body = sent
PROOF
<1> DEFINE key == ServerCfg.cryptoKey
           body == request.body
           hash == request.hash
<1>1. PICK n \in Lengths : sent = Batch(n)
  BY DEF RequestInv
<1>2. n \in Nat \ {0}
  BY LengthsAssumption
<1>3. key \in KeyPaths \cup {""}
  BY DEF KeysRead, BothRun, ServerCfg, Programs
<1>4. /\ hash \in {NoHash, SignBody(sent, AgentCfg.key)}
      /\ body \in {sent, Gzip(sent)} \/ Sealed(AgentCfg.cryptoKey, sent, body)
  BY DEF RequestInv
<1>5. Forged(sent, hash) <=>
        ~(ServerCfg.key = "" \/ hash = NoHash \/ AgentCfg.key = ServerCfg.key)
  <2>1. SignBody(sent, AgentCfg.key) = SignBody(sent, ServerCfg.key)
          <=> AgentCfg.key = ServerCfg.key
    BY DEF SignBody
  <2> HIDE DEF hash
  <2> QED
    BY <1>4, <2>1 DEF Forged
<1>6. IsJson(sent) /\ ~isGzipBody(sent) /\ Len(sent) \in Nat \ {0}
      /\ "rsa" \notin DOMAIN sent[1]
  BY <1>1, <1>2, BatchShape
<1>7. KeysFit <=> EncryptedFor = key /\ ~Forged(sent, hash)
  BY <1>5 DEF KeysFit
<1>8. ASSUME Decrypted(body).ok, Unpacked(Decrypted(body).body) = sent
      PROVE  IF Forged(sent, hash) THEN ~read.ok ELSE read.ok /\ read.body = sent
  <2>1. read = IF Forged(sent, hash) THEN Failure ELSE Success(sent)
    BY <1>8, ReadInStages
  <2> QED
    BY <2>1, Outcomes
<1>9. ~Decrypted(body).ok => ~read.ok
  BY ReadInStages, Outcomes
<1> HIDE DEF key, body, hash
<1>10. CASE body \in {sent, Gzip(sent)}
  <2>1. Unpacked(body) = sent
    BY <1>6, <1>10, GzipShape, GunzipOfGzip DEF Unpacked
  <2>2. Len(body) \in Nat \ {0} /\ "rsa" \notin DOMAIN body[1]
    BY <1>6, <1>10, GzipShape
  <2>3. EncryptedFor = ""
    BY <2>2 DEF EncryptedFor, body
  <2>4. CASE key = ""
    <3>1. Decrypted(body) = Success(body)
      BY <2>4 DEF Decrypted, key
    <3> QED
      BY <1>6, <1>7, <1>8, <2>1, <2>3, <2>4, <3>1, Outcomes
  <2>5. CASE key # ""
    <3>1. Decrypted(body) = Failure
      BY <1>3, <2>2, <2>5, DecryptsNoOther DEF Decrypted, key
    <3> QED
      BY <1>7, <1>9, <2>3, <2>5, <3>1, Outcomes
  <2> QED
    BY <2>4, <2>5
<1>11. CASE Sealed(AgentCfg.cryptoKey, sent, body)
  <2> DEFINE a == AgentCfg.cryptoKey
  <2>1. a \in KeyPaths \ {""} /\ ChunkSize(a) > 0 /\ body = Encrypt(a, Batch(n)).body
    BY <1>1, <1>11 DEF Sealed
  <2> HIDE DEF a
  <2>2. /\ Len(body) \in Nat \ {0} /\ body # NoBody
        /\ "rsa" \in DOMAIN body[1] /\ body[1].rsa = a
        /\ ~isGzipBody(body) /\ ~IsJson(body) /\ Decrypt(a, body) = Success(sent)
    <3>1. a \in KeyPaths /\ ChunkSize(a) > 0 /\ body = Encrypt(a, Batch(n)).body
      BY <2>1
    <3>2. Len(body) \in Nat \ {0} /\ body # NoBody
      BY <1>2, <3>1, SealedShape
    <3>3. "rsa" \in DOMAIN body[1] /\ body[1].rsa = a
      BY <1>2, <3>1, SealedShape
    <3>4. ~isGzipBody(body) /\ ~IsJson(body)
      BY <1>2, <3>1, SealedShape
    <3>5. Decrypt(a, body) = Success(sent)
      BY <1>1, <1>2, <3>1, SealedShape
    <3> QED
      BY <3>2, <3>3, <3>4, <3>5
  <2>3. EncryptedFor = a
    BY <2>2 DEF EncryptedFor, body
  <2>4. CASE key = ""
    <3>1. Decrypted(body) = Success(body) /\ Unpacked(body) = body
      BY <2>2, <2>4 DEF Decrypted, Unpacked, key
    <3>2. read = IF Forged(body, hash) THEN Failure ELSE Success(body)
      BY <3>1, ReadInStages, Outcomes DEF body, hash
    <3>3. ~(read.ok /\ IsJson(read.body))
      BY <2>2, <3>2, Outcomes
    <3> QED
      BY <1>7, <2>1, <2>3, <2>4, <3>3
  <2>5. CASE key = a
    <3>1. Decrypted(body) = Success(sent)
      BY <2>1, <2>2, <2>5 DEF Decrypted, key
    <3>2. Unpacked(sent) = sent
      BY <1>6 DEF Unpacked
    <3> QED
      BY <1>6, <1>7, <1>8, <2>3, <2>5, <3>1, <3>2, Outcomes
  <2>6. CASE key # "" /\ key # a
    <3>1. Decrypted(body) = Failure
      BY <1>3, <2>2, <2>6, DecryptsNoOther DEF Decrypted, key
    <3> QED
      BY <1>7, <1>9, <2>3, <2>6, <3>1, Outcomes
  <2> QED
    BY <2>4, <2>5, <2>6
<1> QED
  BY <1>4, <1>10, <1>11 DEF body

-----------------------------------------------------------------------------
(* The way to the handler *)

\* Only the start of a program, which reads its RSA key, makes it run.
LEMMA KeysReadStep ==
  ASSUME ConfigInv, KeysRead, NEW p \in Programs, parseFlags(p)
  PROVE  KeysRead'
PROOF
<1> SUFFICES ASSUME NEW q \in Programs, step'[q] = "running"
             PROVE  cfg'[q].cryptoKey \in KeyPaths \cup {""}
  BY DEF KeysRead
<1>1. /\ cfg = [r \in Programs |-> cfg[r]]
      /\ step = [r \in Programs |-> step[r]]
  BY DEF ConfigInv
<1>2. CASE Start(p)
  <2>1. q = p => cfg[p].cryptoKey \in KeyPaths \cup {""}
    BY <1>1, <1>2 DEF Start
  <2>2. q # p => step[q] = "running"
    BY <1>1, <1>2 DEF Start
  <2> QED
    BY <1>2, <2>1, <2>2 DEF Start, KeysRead
<1>3. CASE FirstPass(p) \/ ApplyFile(p) \/ ApplyEnvironment(p) \/ SecondPass(p)
  <2>1. \E s \in Steps \ {"running"} : step' = [step EXCEPT ![p] = s]
    BY <1>3 DEF FirstPass, ApplyFile, ApplyEnvironment, SecondPass,
                Steps, PathKnown, FileRead, Parsed
  <2>2. cfg' = cfg \/ \E c : cfg' = [cfg EXCEPT ![p] = c]
    <3>1. CASE FirstPass(p)
      <4> DEFINE path == parseConfigPath(p, cfg[p])
      <4>1. cfg' = cfg \/ cfg' = [cfg EXCEPT ![p].config = path]
        BY <3>1 DEF FirstPass
      <4> HIDE DEF path
      <4> QED
        BY <4>1
    <3>2. CASE ApplyFile(p)
      BY <3>2 DEF ApplyFile
    <3>3. CASE ApplyEnvironment(p)
      BY <3>3 DEF ApplyEnvironment
    <3>4. CASE SecondPass(p)
      BY <3>4 DEF SecondPass
    <3> QED
      BY <1>3, <3>1, <3>2, <3>3, <3>4
  <2>3. q # p /\ step[q] = "running"
    BY <1>1, <2>1
  <2>4. cfg'[q] = cfg[q]
    BY <1>1, <2>2, <2>3
  <2> QED
    BY <2>3, <2>4 DEF KeysRead
<1> QED
  BY <1>2, <1>3 DEF parseFlags

\* The keys stay as they are while a request is on its way.
LEMMA KeysStay ==
  ASSUME UNCHANGED configVars
  PROVE  /\ AgentCfg' = AgentCfg /\ ServerCfg' = ServerCfg
         /\ KeysRead => KeysRead'
         /\ UNCHANGED request => KeysFit' = KeysFit
PROOF
BY DEF configVars, AgentCfg, ServerCfg, KeysRead, KeysFit, EncryptedFor

\* Nothing is encrypted with a key that leaves no room for a chunk.
LEMMA EncryptsInChunks ==
  ASSUME NEW k \in KeyPaths, NEW data, data # NoBody, Encrypt(k, data).ok
  PROVE  ChunkSize(k) > 0
PROOF
<1>1. ChunkSize(k) \in Int
  BY KeySizeAssumption, OverheadAssumption DEF ChunkSize
<1>2. ChunkSize(k) <= 0 => Encrypt(k, data) = Failure
  BY DEF Encrypt
<1>3. ~(ChunkSize(k) <= 0)
  BY <1>2, Outcomes
<1> QED
  BY <1>1, <1>3

\* The agent, which could read its key, sends the batch plain or sealed.
LEMMA SendRequestToServerRequest ==
  ASSUME RequestInv, KeysRead, SendRequestToServer
  PROVE  RequestInv'
PROOF
<1> DEFINE k == AgentCfg.cryptoKey
           e(n) == IF k = "" THEN Success(Batch(n)) ELSE Encrypt(k, Batch(n))
           h(n) == SignRequest(e(n).body, Batch(n), AgentCfg.key)
<1>1. PICK n \in Lengths, inSubnet \in BOOLEAN :
        /\ sent' = Batch(n)
        /\ IF e(n).ok
             THEN /\ request' = [body |-> e(n).body, packed |-> FALSE, acceptsGzip |-> TRUE,
                                 hash |-> h(n), trusted |-> inSubnet]
                  /\ phase' = "zip" /\ UNCHANGED got
             ELSE phase' = "done" /\ got' = [NotGot EXCEPT !.status = 500] /\ UNCHANGED request
  BY DEF SendRequestToServer
<1>2. BothRun /\ UNCHANGED configVars
  BY DEF SendRequestToServer
<1>3. n \in Nat \ {0} /\ Batch(n) # NoBody
  BY LengthsAssumption, BatchShape
<1>4. k \in KeyPaths \cup {""}
  BY <1>2 DEF KeysRead, BothRun, AgentCfg, Programs
<1>5. h(n) \in {NoHash, SignBody(Batch(n), AgentCfg.key)}
  BY DEF SignRequest
<1>6. ASSUME e(n).ok
      PROVE  \/ e(n).body = Batch(n)
             \/ k \in KeyPaths \ {""} /\ ChunkSize(k) > 0 /\ e(n).body = Encrypt(k, Batch(n)).body
  <2>1. CASE k = ""
    BY <2>1, Outcomes
  <2>2. CASE k # ""
    <3>1. Encrypt(k, Batch(n)).ok
      BY <1>6, <2>2
    <3>2. e(n).body = Encrypt(k, Batch(n)).body
      BY <2>2
    <3> HIDE DEF k, e
    <3>3. k \in KeyPaths /\ ChunkSize(k) > 0
      BY <1>3, <1>4, <2>2, <3>1, EncryptsInChunks
    <3> QED
      BY <2>2, <3>2, <3>3
  <2> QED
    BY <2>1, <2>2
<1>7. AgentCfg' = AgentCfg /\ k = AgentCfg'.cryptoKey
  BY <1>2, KeysStay
<1> HIDE DEF k, e, h
<1>8. CASE e(n).ok
  <2>1. /\ request'.body = e(n).body /\ request'.hash = h(n) /\ ~request'.packed
        /\ request' = [body |-> request'.body, hash |-> request'.hash,
                       packed |-> request'.packed, acceptsGzip |-> request'.acceptsGzip,
                       trusted |-> request'.trusted]
        /\ phase' = "zip"
    BY <1>1, <1>8
  <2>2. request'.body = sent' \/ Sealed(k, sent', request'.body)
    BY <1>1, <1>6, <1>8, <2>1 DEF Sealed
  <2>3. request'.hash \in {NoHash, SignBody(sent', AgentCfg'.key)}
    BY <1>1, <1>5, <1>7, <2>1
  <2> QED
    BY <1>1, <1>7, <2>1, <2>2, <2>3 DEF RequestInv
<1>9. CASE ~e(n).ok
  BY <1>1, <1>9 DEF RequestInv
<1> QED
  BY <1>8, <1>9

\* Another client sends it plain or packed.
LEMMA OtherClientRequest ==
  ASSUME OtherClient
  PROVE  RequestInv'
PROOF
<1>1. PICK n \in Lengths, packed, zipped, signed, accepts \in BOOLEAN :
        /\ sent' = Batch(n)
        /\ request' = [body |-> IF zipped THEN Gzip(Batch(n)) ELSE Batch(n),
                       packed |-> packed, acceptsGzip |-> accepts, trusted |-> TRUE,
                       hash |-> IF signed THEN SignRequest(Batch(n), Batch(n), AgentCfg.key) ELSE NoHash]
  BY DEF OtherClient
<1>2. AgentCfg' = AgentCfg
  BY KeysStay DEF OtherClient
<1>3. request'.hash \in {NoHash, SignBody(Batch(n), AgentCfg.key)}
  BY <1>1 DEF SignRequest
<1>4. request'.body \in {sent', Gzip(sent')}
  BY <1>1
<1>5. request' = [body |-> request'.body, hash |-> request'.hash, packed |-> request'.packed,
                  acceptsGzip |-> request'.acceptsGzip, trusted |-> request'.trusted]
  BY <1>1
<1>6. phase' = "zip"
  BY DEF OtherClient
<1> QED
  BY <1>1, <1>2, <1>3, <1>4, <1>5, <1>6 DEF RequestInv

\* ZipMiddleware unpacks what is announced as packed and was; nothing sealed is.
LEMMA ZipInRequest ==
  ASSUME RequestInv, ZipIn
  PROVE  RequestInv'
PROOF
<1>1. /\ phase = "zip" /\ UNCHANGED <<configVars, sent>>
      /\ \/ phase' = "back"
         \/ /\ phase' = "handler" /\ (request.packed => isGzipBody(request.body))
            /\ request' = [request EXCEPT !.body = IF request.packed THEN Gunzip(@) ELSE @]
  BY DEF ZipIn
<1>2. PICK n \in Lengths : sent = Batch(n)
  BY <1>1 DEF RequestInv
<1>3. AgentCfg' = AgentCfg
  BY <1>1, KeysStay
<1>4. CASE phase' = "back"
  BY <1>1, <1>2, <1>4 DEF RequestInv
<1>5. CASE phase' = "handler"
  <2> DEFINE b == IF request.packed THEN Gunzip(request.body) ELSE request.body
             k == AgentCfg.cryptoKey
  <2>1. b \in {sent, Gzip(sent)} \/ (~request.packed /\ Sealed(k, sent, b))
    <3>1. CASE request.packed
      <4>1. request.body \in {sent, Gzip(sent)} /\ isGzipBody(request.body)
        BY <1>1, <1>5, <3>1 DEF RequestInv
      <4>2. ~isGzipBody(sent)
        BY <1>2, BatchShape, LengthsAssumption
      <4> QED
        BY <3>1, <4>1, <4>2, GunzipOfGzip
    <3>2. CASE ~request.packed
      BY <1>1, <3>2 DEF RequestInv
    <3> QED
      BY <3>1, <3>2
  <2> HIDE DEF b, k
  <2>2. request' = [body |-> b, hash |-> request.hash, packed |-> request.packed,
                    acceptsGzip |-> request.acceptsGzip, trusted |-> request.trusted]
    BY <1>1, <1>5 DEF RequestInv, b
  <2>3. request'.body = b /\ request'.hash = request.hash /\ request'.packed = request.packed
    BY <2>2
  <2>4. request.hash \in {NoHash, SignBody(sent, AgentCfg.key)}
    BY <1>1 DEF RequestInv
  <2>5. request' = [body |-> request'.body, hash |-> request'.hash, packed |-> request'.packed,
                    acceptsGzip |-> request'.acceptsGzip, trusted |-> request'.trusted]
    BY <2>2
  <2>6. request'.hash \in {NoHash, SignBody(sent', AgentCfg'.key)}
    BY <1>1, <1>3, <2>3, <2>4
  <2>7. request'.body \in {sent', Gzip(sent')} \/ (~request'.packed /\ Sealed(k, sent', request'.body))
    BY <1>1, <2>1, <2>3
  <2>8. sent' = Batch(n) /\ k = AgentCfg'.cryptoKey
    BY <1>1, <1>2, <1>3 DEF k
  <2> QED
    BY <1>5, <2>5, <2>6, <2>7, <2>8 DEF RequestInv
<1> QED
  BY <1>1, <1>4, <1>5

\* The handler refuses with 400 if and only if the keys do not fit, and saves what
\* was sent.
LEMMA HandleDelivers ==
  ASSUME RepliesInv, RequestInv, KeysRead, Handle
  PROVE  RequestInv' /\ FittingKeysDeliver'
PROOF
<1> DEFINE read == readAndVerifyRequestBody(request.body, request.hash)
<1>1. /\ phase = "handler" /\ phase' = "sign" /\ BothRun
      /\ UNCHANGED configVars /\ sent' = sent /\ request' = request
  BY DEF Handle, RepliesInv
<1>2. /\ (read.ok /\ IsJson(read.body)) <=> KeysFit
      /\ KeysFit => read.body = sent
  BY <1>1, FittingIsRead
<1>3. \/ Reply(403, NoBody)
      \/ Reply(400, Message("error")) /\ ~(read.ok /\ IsJson(read.body))
      \/ Reply(200, read.body) /\ saved' = read.body /\ read.ok /\ IsJson(read.body)
      \/ Reply(500, Message("error")) /\ read.ok /\ IsJson(read.body)
  <2> HIDE DEF read
  <2> QED
    BY DEF Handle, read
<1> HIDE DEF read
<1>4. ASSUME NEW s, NEW b, Reply(s, b)
      PROVE  answer'.status = s
  BY <1>4 DEF Reply, RepliesInv, AnswerInv
<1>5. FittingKeysDeliver'
  <2>1. KeysFit' = KeysFit
    BY <1>1, KeysStay
  <2>2. \/ answer'.status = 403
        \/ answer'.status = 400 /\ ~KeysFit
        \/ answer'.status = 200 /\ KeysFit /\ saved' = sent
        \/ answer'.status = 500 /\ KeysFit
    BY <1>2, <1>3, <1>4
  <2> QED
    BY <1>1, <2>1, <2>2 DEF FittingKeysDeliver
<1>6. RequestInv'
  <2>1. AgentCfg' = AgentCfg
    BY <1>1, KeysStay
  <2> QED
    BY <1>1, <2>1 DEF RequestInv
<1> QED
  BY <1>5, <1>6

\* Once a request is answered nothing asks for it any more.
LEMMA BackRequest ==
  ASSUME RequestInv, phase # "idle", UNCHANGED sent, phase' \in {"pack", "back", "done"}
  PROVE  RequestInv' /\ FittingKeysDeliver'
PROOF
BY DEF RequestInv, FittingKeysDeliver

\* Every step keeps what is known of a request's way.
LEMMA WayThereStep ==
  ASSUME ExchangeInv, [ExchangeNext]_<<configVars, exchangeVars>>
  PROVE  KeysRead' /\ RequestInv' /\ FittingKeysDeliver'
PROOF
<1> USE DEF ExchangeInv
<1>1. CASE Configure
  <2>1. PICK p \in Programs : parseFlags(p)
    BY <1>1 DEF Configure
  <2>2. phase' = "idle"
    BY <1>1, <2>1, SettledWhenBothRun DEF RepliesInv, Configure, exchangeVars
  <2> QED
    BY <2>1, <2>2, KeysReadStep DEF RepliesInv, RequestInv, FittingKeysDeliver
<1>2. CASE SendRequestToServer \/ OtherClient
  <2>1. phase' \in {"zip", "done"} /\ UNCHANGED configVars
    BY <1>2 DEF SendRequestToServer, OtherClient
  <2> QED
    BY <1>2, <2>1, KeysStay, SendRequestToServerRequest, OtherClientRequest
       DEF FittingKeysDeliver
<1>3. CASE ZipIn
  <2>1. phase' \in {"back", "handler"} /\ UNCHANGED configVars
    BY <1>3 DEF ZipIn
  <2> QED
    BY <1>3, <2>1, KeysStay, ZipInRequest DEF FittingKeysDeliver
<1>4. CASE Handle
  BY <1>4, KeysStay, HandleDelivers DEF Handle
<1>5. CASE HashResponse \/ ZipOut \/ Unzip
  BY <1>5, KeysStay, BackRequest DEF HashResponse, ZipOut, Unzip
<1>6. CASE Over \/ UNCHANGED <<configVars, exchangeVars>>
  <2>1. UNCHANGED <<configVars, phase, sent, request, saved, answer, got>>
    BY <1>6 DEF Over, exchangeVars
  <2>2. KeysRead' /\ AgentCfg' = AgentCfg /\ KeysFit' = KeysFit
    BY <2>1, KeysStay
  <2> QED
    BY <2>1, <2>2 DEF RequestInv, FittingKeysDeliver
<1> QED
  BY <1>1, <1>2, <1>3, <1>4, <1>5, <1>6 DEF ExchangeNext

\* No request, no key read yet.
LEMMA ExchangeInitInv == ExchangeInit => ExchangeInv
PROOF
<1> SUFFICES ASSUME ExchangeInit PROVE ExchangeInv
  OBVIOUS
<1>1. RepliesInv
  BY RepliesInitInv
<1>2. KeysRead
  BY DEF KeysRead, ExchangeInit, ConfigurationInit
<1> QED
  BY <1>1, <1>2 DEF ExchangeInv, RequestInv, FittingKeysDeliver, ExchangeInit

-----------------------------------------------------------------------------
(* Theorems *)

\* Whatever two programs are started with, and whoever sends what: the
\* configuration, the way of a request to the handler and the signatures on its
\* answer's way back are kept by every step.
THEOREM InductiveInvariant == ExchangeSpec => []ExchangeInv
PROOF
<1>1. RepliesInv /\ [ExchangeNext]_<<configVars, exchangeVars>> => RepliesInv'
  BY ConfigureInv, ClientInv, ZipInInv, HandleInv, HashResponseInv, ZipOutInv, UnzipInv,
     StutterInv DEF ExchangeNext, Over
<1>2. ExchangeInv /\ [ExchangeNext]_<<configVars, exchangeVars>> => ExchangeInv'
  BY <1>1, WayThereStep DEF ExchangeInv
<1> QED
  BY ExchangeInitInv, <1>2, PTL DEF ExchangeSpec

\* Every variable keeps its type: an option always has a value of its own kind.
THEOREM TypeCorrect == ExchangeSpec => []ExchangeTypeOK
PROOF
<1>1. ExchangeInv => ExchangeTypeOK
  BY DEF ExchangeInv, RepliesInv
<1> QED
  BY InductiveInvariant, <1>1, PTL

\* parseFlags of both programs, for any command line, environment and files: a
\* program that starts has each option from its strongest source.
THEOREM SourcesAreOrdered == ExchangeSpec => []StrongestSourceWins
PROOF
<1>1. ExchangeInv => StrongestSourceWins
  BY ConfigInvSources DEF ExchangeInv, RepliesInv
<1> QED
  BY InductiveInvariant, <1>1, PTL

\* applyFileConfig refuses an interval that time.NewTicker would panic on.
THEOREM NoPanicFromFiles == ExchangeSpec => []FilesNeverPanic
PROOF
<1>1. ExchangeInv => FilesNeverPanic
  BY ConfigInvPanics DEF ExchangeInv, RepliesInv
<1> QED
  BY InductiveInvariant, <1>1, PTL

\* HashResponseMiddleware inside of ZipMiddleware: the signature is that of the body
\* the client reads, packed or not, for any keys and any request.
THEOREM AnswersVerify == ExchangeSpec => []AnswerVerifies
PROOF
<1>1. ExchangeInv => AnswerVerifies
  BY DEF ExchangeInv, RepliesInv
<1> QED
  BY InductiveInvariant, <1>1, PTL

\* readAndVerifyRequestBody, for any RSA keys and batches: what Encrypt cut into blocks
\* Decrypt puts together again, and a batch, plain, packed or encrypted, signed or not,
\* is saved as it was sent if the keys of the two programs fit, and refused if not.
THEOREM FittingKeysAreEnough == ExchangeSpec => []FittingKeysDeliver
PROOF
<1>1. ExchangeInv => FittingKeysDeliver
  BY DEF ExchangeInv
<1> QED
  BY InductiveInvariant, <1>1, PTL
=============================================================================
