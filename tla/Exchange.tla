------------------------------ MODULE Exchange ------------------------------
(***************************************************************************)
(* One batch over HTTP between two configured programs: SendRequestToServer *)
(* of the agent, or another client, then the server's middleware from the   *)
(* outside in (ZipMiddleware, HashResponseMiddleware,                       *)
(* TrustedSubnetMiddleware), BulkUpdateMetrics, and the answer's way back.  *)
(*                                                                          *)
(* A body is a sequence of bytes, a byte a record that says what it is part *)
(* of: JSON, a gzip stream or a block of RSA-OAEP, which is of use to       *)
(* nobody who lacks the private key.                                        *)
(***************************************************************************)
EXTENDS Configuration, SequencesExt

CONSTANTS
  KeySize,   \* bytes of the RSA key in each of KeyPaths
  Overhead,  \* 2*sha256.Size + 2
  Lengths    \* lengths of the batches that are sent

ASSUME KeySizeAssumption == KeySize \in [KeyPaths -> Nat \ {0}]
ASSUME OverheadAssumption == Overhead \in Nat
ASSUME LengthsAssumption == Lengths \subseteq Nat \ {0}

VARIABLES
  phase,    \* where the request is
  sent,     \* history: the JSON that the client sends
  request,  \* body and headers on their way to the handler
  saved,    \* the batch that BulkUpdateMetrics hands to the service, as JSON
  answer,   \* status, body and headers on their way back
  got       \* what the client makes of the answer

exchangeVars == <<phase, sent, request, saved, answer, got>>

NoBody == <<>>
NoHash == [of |-> NoBody, key |-> ""]
NoRequest == [body |-> NoBody, hash |-> NoHash, packed |-> FALSE, acceptsGzip |-> FALSE,
              trusted |-> FALSE]
NoAnswer == [status |-> 0, body |-> NoBody, hash |-> NoHash, gzip |-> FALSE]
NotGot == [status |-> 0, body |-> NoBody, hash |-> NoHash]

ExchangeInit ==
  /\ ConfigurationInit
  /\ phase = "idle"
  /\ sent = NoBody /\ request = NoRequest /\ saved = NoBody
  /\ answer = NoAnswer /\ got = NotGot

-----------------------------------------------------------------------------
(* Bodies *)

Batch(n) == [i \in 1..n |-> [json |-> i, length |-> n]]
Message(text) == <<[text |-> text]>>
IsJson(body) == body # NoBody /\ body = Batch(Len(body))

\* gzip: the two magic bytes and what was compressed.
Gzip(body) == <<[magic |-> 1], [magic |-> 2], [zipped |-> body]>>
isGzipBody(body) == Len(body) >= 2 /\ \A i \in 1..2 : body[i] = [magic |-> i]
Gunzip(body) == body[3].zipped

\* HMAC: equal for equal bodies and keys only.
SignBody(body, key) == [of |-> body, key |-> key]

Failure == [ok |-> FALSE, body |-> NoBody]
Success(body) == [ok |-> TRUE, body |-> body]

ChunkSize(k) == KeySize[k] - Overhead

\* mutant: a last chunk that is not full is left out
EncryptFullChunks(k, data) ==
  LET blocks == Len(data) \div ChunkSize(k)
      chunk(n) == SubSeq(data, (n - 1) * ChunkSize(k) + 1, n * ChunkSize(k))
  IN  IF ChunkSize(k) <= 0 THEN Failure
      ELSE Success([i \in 1..(blocks * KeySize[k]) |->
             [rsa |-> k, part |-> chunk((i - 1) \div KeySize[k] + 1), at |-> (i - 1) % KeySize[k]]])

\* cryptoutil.Encrypt: the data in chunks, a block of KeySize bytes for each.
Encrypt(k, data) ==
  LET chunk(n) == SubSeq(data, (n - 1) * ChunkSize(k) + 1, Min({n * ChunkSize(k), Len(data)}))
      blocks == (Len(data) + ChunkSize(k) - 1) \div ChunkSize(k)
  IN  IF data = NoBody THEN Success(NoBody)
      ELSE IF ChunkSize(k) <= 0 THEN Failure
      ELSE Success([i \in 1..(blocks * KeySize[k]) |->
             [rsa |-> k, part |-> chunk((i - 1) \div KeySize[k] + 1), at |-> (i - 1) % KeySize[k]]])

\* cryptoutil.Decrypt: every block must be one that Encrypt made for this key.
Decrypt(k, data) ==
  LET size == KeySize[k]
      first(n) == data[(n - 1) * size + 1]
      genuine(n) == \A i \in 1..size :
        LET b == data[(n - 1) * size + i]
        IN  "rsa" \in DOMAIN b /\ b.rsa = k /\ b.at = i - 1 /\ b.part = first(n).part
      blocks == 1..(Len(data) \div size)
  IN  IF Len(data) % size = 0 /\ \A n \in blocks : genuine(n)
        THEN Success(FlattenSeq([n \in blocks |-> first(n).part]))
        ELSE Failure

-----------------------------------------------------------------------------
(* The client *)

AgentCfg == cfg["agent"]
ServerCfg == cfg["server"]
BothRun == \A p \in Programs : step[p] = "running"

\* mutant: the body is signed as it goes over the network
SignEncrypted(body, plain, key) == IF key = "" THEN NoHash ELSE SignBody(body, key)

\* The signature is that of the plain JSON, encrypted or not.
SignRequest(body, plain, key) == IF key = "" THEN NoHash ELSE SignBody(plain, key)

\* SendRequestToServer up to client.Do; hostIP may lie outside of the subnet.
SendRequestToServer ==
  /\ phase = "idle"
  /\ BothRun
  /\ \E n \in Lengths, inSubnet \in BOOLEAN :
       LET plain == Batch(n)
           encrypted == IF AgentCfg.cryptoKey = "" THEN Success(plain)
                                                   ELSE Encrypt(AgentCfg.cryptoKey, plain)
       IN  /\ sent' = plain
           /\ IF encrypted.ok
                THEN /\ request' = [body |-> encrypted.body, packed |-> FALSE, acceptsGzip |-> TRUE,
                                    hash |-> SignRequest(encrypted.body, plain, AgentCfg.key),
                                    trusted |-> inSubnet]
                     /\ phase' = "zip" /\ UNCHANGED got
                ELSE phase' = "done" /\ got' = [NotGot EXCEPT !.status = 500] /\ UNCHANGED request
  /\ UNCHANGED <<configVars, saved, answer>>

\* Another client sends gzip, announced by Content-Encoding or not, or announces
\* gzip and sends none.  It has the agent's keys and may do without a signature.
OtherClient ==
  /\ phase = "idle"
  /\ BothRun
  /\ \E n \in Lengths, packed, zipped, signed, accepts \in BOOLEAN :
       /\ sent' = Batch(n)
       /\ request' = [body |-> IF zipped THEN Gzip(Batch(n)) ELSE Batch(n),
                      packed |-> packed, acceptsGzip |-> accepts, trusted |-> TRUE,
                      hash |-> IF signed THEN SignRequest(Batch(n), Batch(n), AgentCfg.key) ELSE NoHash]
  /\ phase' = "zip"
  /\ UNCHANGED <<configVars, saved, answer, got>>

-----------------------------------------------------------------------------
(* The server *)

\* ZipMiddleware on the way in: a body announced as gzip is unpacked, or refused
\* before any other middleware; the answer is packed when the client accepts it.
ZipIn ==
  /\ phase = "zip"
  /\ IF request.packed /\ ~isGzipBody(request.body)
       THEN /\ answer' = [NoAnswer EXCEPT !.status = 400]
            /\ phase' = "back"
            /\ UNCHANGED request
       ELSE /\ request' = [request EXCEPT !.body = IF request.packed THEN Gunzip(@) ELSE @]
            /\ answer' = [answer EXCEPT !.gzip = request.acceptsGzip]
            /\ phase' = "handler"
  /\ UNCHANGED <<configVars, sent, saved, got>>

\* readAndVerifyRequestBody: decrypt, unpack, and verify a signature that is there.
readAndVerifyRequestBody(body, hash) ==
  LET decrypted == IF ServerCfg.cryptoKey = "" THEN Success(body)
                                               ELSE Decrypt(ServerCfg.cryptoKey, body)
      plain == IF isGzipBody(decrypted.body) THEN Gunzip(decrypted.body) ELSE decrypted.body
  IN  IF ~decrypted.ok THEN Failure
      ELSE IF /\ ServerCfg.key # "" /\ hash # NoHash
              /\ hash # SignBody(plain, ServerCfg.key)
        THEN Failure
        ELSE Success(plain)

Reply(status, body) ==
  answer' = [answer EXCEPT !.status = status, !.body = body]

\* TrustedSubnetMiddleware and BulkUpdateMetrics: 403, 400 for a body that fails to
\* be read or is no JSON, or the batch is saved and answered (when the storage fails,
\* with 500).
Handle ==
  /\ phase = "handler"
  /\ LET read == readAndVerifyRequestBody(request.body, request.hash)
     IN  IF ServerCfg.trustedSubnet # "" /\ ~request.trusted
           THEN Reply(403, NoBody) /\ UNCHANGED saved
         ELSE IF ~read.ok \/ ~IsJson(read.body)
           THEN Reply(400, Message("error")) /\ UNCHANGED saved
         ELSE \/ Reply(200, read.body) /\ saved' = read.body
              \/ Reply(500, Message("error")) /\ UNCHANGED saved
  /\ phase' = "sign"
  /\ UNCHANGED <<configVars, sent, request, got>>

\* mutant: the answer is signed as the client receives it, packed
SignPacked ==
  /\ phase = "sign"
  /\ answer' = [answer EXCEPT !.hash = IF ServerCfg.key = "" THEN NoHash
                                       ELSE SignBody(IF answer.gzip THEN Gzip(answer.body)
                                                     ELSE answer.body, ServerCfg.key)]
  /\ phase' = "pack"
  /\ UNCHANGED <<configVars, sent, request, saved, got>>

\* HashResponseMiddleware on the way back: the buffered answer gets its signature.
HashResponse ==
  /\ phase = "sign"
  /\ answer' = [answer EXCEPT !.hash = IF ServerCfg.key = "" THEN NoHash
                                       ELSE SignBody(answer.body, ServerCfg.key)]
  /\ phase' = "pack"
  /\ UNCHANGED <<configVars, sent, request, saved, got>>

\* ZipMiddleware on the way back: gzip.Writer writes a stream even for no body.
ZipOut ==
  /\ phase = "pack"
  /\ answer' = [answer EXCEPT !.body = IF answer.gzip THEN Gzip(@) ELSE @]
  /\ phase' = "back"
  /\ UNCHANGED <<configVars, sent, request, saved, got>>

\* Unzip of the agent, or what another client does with Content-Encoding.
Unzip ==
  /\ phase = "back"
  /\ got' = [status |-> answer.status, hash |-> answer.hash,
             body |-> IF answer.gzip THEN Gunzip(answer.body) ELSE answer.body]
  /\ phase' = "done"
  /\ UNCHANGED <<configVars, sent, request, saved, answer>>

\* A program that did not start leaves nothing to exchange.
Over ==
  /\ phase = "done" \/ \E p \in Programs : step[p] \in {"failed", "panicked"}
  /\ UNCHANGED <<configVars, exchangeVars>>

Configure == /\ \E p \in Programs : parseFlags(p)
             /\ UNCHANGED exchangeVars

ExchangeNext ==
  \/ Configure
  \/ SendRequestToServer \/ OtherClient
  \/ ZipIn \/ Handle \/ HashResponse \/ ZipOut \/ Unzip
  \/ Over

ExchangeSpec == ExchangeInit /\ [][ExchangeNext]_<<configVars, exchangeVars>>

-----------------------------------------------------------------------------
(* Properties *)

\* Every variable keeps its type.
ExchangeTypeOK ==
  /\ \A p \in Programs : /\ DOMAIN cfg[p] = Options(p)
                         /\ \A o \in Options(p) : Parses(o, cfg[p][o])
                         /\ step[p] \in Steps
  /\ phase \in {"idle", "zip", "handler", "sign", "pack", "back", "done"}
  /\ answer.status \in {0, 200, 400, 403, 500}
  /\ got.status \in {0, answer.status, 500}

\* The key that the body is encrypted for; clients other than the agent do not
\* encrypt.
EncryptedFor == IF request.body # NoBody /\ "rsa" \in DOMAIN request.body[1]
                  THEN request.body[1].rsa ELSE ""

\* The keys of the two programs fit: the same RSA key or none, and, if the client
\* signed and the server verifies, the same signing key.
KeysFit ==
  /\ EncryptedFor = ServerCfg.cryptoKey
  /\ ServerCfg.key = "" \/ request.hash = NoHash \/ AgentCfg.key = ServerCfg.key

\* A request that reached the handler with fitting keys is never refused with 400,
\* however it was packed, signed and cut into blocks, and the batch that is saved is
\* the one that was sent; a request whose keys do not fit always is refused, with an
\* error that the agent does not retry.
FittingKeysDeliver ==
  phase = "sign" /\ answer.status # 403 =>
    /\ answer.status = 400 <=> ~KeysFit
    /\ answer.status = 200 => saved = sent

\* The signature of an answer is that of the body as the client reads it, after it
\* is unpacked; only a request that ZipMiddleware itself refuses gets none.
AnswerVerifies ==
  phase = "done" /\ answer.status # 0 /\ ServerCfg.key # "" =>
    \/ got.hash = SignBody(got.body, ServerCfg.key)
    \/ got.status = 400 /\ request.packed

-----------------------------------------------------------------------------
(* What an exchange keeps *)

\* The answer is signed for the body that the client will read.
SignedFor(body) == ServerCfg.key # "" => answer.hash = SignBody(body, ServerCfg.key)

\* The body as the client reads it.
AsRead == IF answer.gzip THEN Gunzip(answer.body) ELSE answer.body

\* Each signature is made once, over the body that HashResponseMiddleware buffers,
\* and packing and unpacking keep it valid; ZipMiddleware's own refusal has none.
AnswerInv ==
  /\ answer = [status |-> answer.status, body |-> answer.body,
               hash |-> answer.hash, gzip |-> answer.gzip]
  /\ answer.gzip \in BOOLEAN /\ request.acceptsGzip \in BOOLEAN
  /\ phase \in {"idle", "zip", "handler"} => answer.status = 0 /\ got.status = 0
  /\ phase \in {"sign", "pack"} => answer.status # 0 /\ got.status = 0
  /\ phase = "pack" => SignedFor(answer.body)
  /\ phase = "back" =>
       \/ answer.status = 400 /\ request.packed
       \/ SignedFor(AsRead)

\* The configuration is settled before the first request, and the answer that the
\* client holds is the one it was sent.
RepliesInv ==
  /\ ConfigInv
  /\ ExchangeTypeOK
  /\ phase # "idle" => BothRun
  /\ AnswerInv
  /\ AnswerVerifies

\* The body is what SendRequestToServer makes of the data with an RSA key.
Sealed(k, data, body) ==
  k \in KeyPaths \ {""} /\ ChunkSize(k) > 0 /\ body = Encrypt(k, data).body

\* What the handler gets goes back to one batch: plain, packed or encrypted, with a
\* signature over the plain JSON or none.
RequestInv ==
  /\ phase # "idle" => \E n \in Lengths : sent = Batch(n)
  /\ phase \in {"zip", "handler", "sign"} =>
       /\ request = [body |-> request.body, hash |-> request.hash, packed |-> request.packed,
                     acceptsGzip |-> request.acceptsGzip, trusted |-> request.trusted]
       /\ request.hash \in {NoHash, SignBody(sent, AgentCfg.key)}
       /\ \/ request.body \in {sent, Gzip(sent)}
          \/ ~request.packed /\ Sealed(AgentCfg.cryptoKey, sent, request.body)

\* A program runs without an RSA key or with one that it could read.
KeysRead ==
  \A p \in Programs : step[p] = "running" => cfg[p].cryptoKey \in KeyPaths \cup {""}

\* What an exchange keeps: the way there, and the way back.
ExchangeInv ==
  RepliesInv /\ KeysRead /\ RequestInv /\ FittingKeysDeliver
=============================================================================
