----------------------------- MODULE Answering ------------------------------
(***************************************************************************)
(* The question pipeline that chat and evaluation cases share              *)
(* (rag/pipeline.go with retrieval.go, prompt.go, citations.go, cost.go    *)
(* and trace/store.go), over a corpus whose active revisions change while  *)
(* requests are on their way.  One step is one call to a provider or one   *)
(* statement, with the work up to the next one.                            *)
(*                                                                         *)
(* A text the model generates is the sequence of evidence numbers it       *)
(* cites, or the marker of insufficient evidence.  Scores are exact        *)
(* fractions; the code adds floating-point numbers.                        *)
(***************************************************************************)
EXTENDS Integers, Sequences, SequencesExt, FiniteSets

CONSTANTS Requests, Configs,
          Docs, Revisions,      \* revisions are numbers; a later one is larger
          RevisionDoc, RevisionIdentity,  \* its document, its embedding identity
          Chunks, ChunkRevision, Size,    \* chunk numbers follow the identity order
          Distance,             \* cosine distance to the question
          Nearness, Matches,    \* the chunks as each branch's ORDER BY has them
          Budget,               \* ContextBudgetChars
          MaxCites,             \* bound: citations in one text
          Usage                 \* token counts: <<>> when not reported

(* A chunk has at most 8192 characters, the budget is 24000.               *)
ASSUME BudgetAssumption == \A c \in Chunks : Size[c] \in Nat /\ Size[c] <= Budget

(* Each branch's ORDER BY lists chunks once; chunks have distances.        *)
ASSUME CorpusAssumption ==
  /\ Chunks \subseteq Nat /\ {Budget, MaxCites} \subseteq Nat /\ \A c \in Chunks : Distance[c] \in Int
  /\ Nearness \in Seq(Chunks) /\ IsInjective(Nearness)
  /\ Matches \in Seq(Chunks) /\ IsInjective(Matches)

(* ragconfig/config.go: the limits and the rank constant are positive.     *)
ASSUME ConfigAssumption ==
  \A g \in Configs : /\ g.hybrid \in BOOLEAN /\ g.rerank \in BOOLEAN /\ g.rerankLimit \in Nat
                     /\ {g.topK, g.k, g.vectorLimit, g.textLimit} \subseteq Nat \ {0}

VARIABLES active, deleted,  \* documents: active revision (0: none), deletion
          requests, traces, replies,
          torn              \* history: the corpus changed between two branches

vars == <<active, deleted, requests, traces, replies, torn>>
corpus == <<active, deleted>>

Insufficient == [insufficient |-> TRUE, cites |-> <<>>]
NoReply == [kind |-> "none", code |-> "ok", answer |-> Insufficient, citations |-> <<>>,
            retrieved |-> <<>>, cost |-> FALSE]
Idle == [pc |-> "idle", config |-> CHOOSE g \in Configs : TRUE,
         near |-> <<>>, evidence |-> <<>>, context |-> <<>>,
         embedded |-> <<>>, input |-> <<>>, output |-> <<>>,
         answer |-> Insufficient, citations |-> <<>>, code |-> "ok"]

Init ==
  /\ active = [d \in Docs |-> 0] /\ deleted = {}
  /\ requests = [q \in Requests |-> Idle]
  /\ traces = [q \in Requests |-> <<>>]
  /\ replies = [q \in Requests |-> NoReply]
  /\ torn = {}
----------------------------------------------------------------------------
(* The corpus: what the ingestion workers and the library API do to it.    *)

Moves == torn' = torn \cup {q \in Requests : requests[q].pc = "text"}

Publish(r) ==
  LET d == RevisionDoc[r] IN
  /\ active[d] < r /\ d \notin deleted
  /\ active' = [active EXCEPT ![d] = r]
  /\ Moves
  /\ UNCHANGED <<deleted, requests, traces, replies>>

Delete(d) ==
  /\ d \notin deleted
  /\ deleted' = deleted \cup {d}
  /\ Moves
  /\ UNCHANGED <<active, requests, traces, replies>>

(* searchable_chunks and boundaryExistsQuery.                              *)
SearchableOfAny(g) == {c \in Chunks : RevisionDoc[ChunkRevision[c]] \notin deleted}   \* mutant
Searchable(g) ==
  {c \in Chunks : LET r == ChunkRevision[c] IN
     /\ RevisionDoc[r] \notin deleted /\ active[RevisionDoc[r]] = r
     /\ RevisionIdentity[r] = g.identity}

BoundaryExists(g) ==
  \E d \in Docs \ deleted : active[d] # 0 /\ RevisionIdentity[active[d]] = g.identity
----------------------------------------------------------------------------
(* Pure parts of the pipeline.                                             *)

FirstOf(s, n) == SubSeq(s, 1, IF n < Len(s) THEN n ELSE Len(s))

(* The elements of S, each after those that the strict order R puts before *)
(* it; and as they first occur in a sequence.                              *)
Listed(S, R) ==
  [i \in 1..Cardinality(S) |-> CHOOSE x \in S : Cardinality({y \in S : <<y, x>> \in R}) = i - 1]

Rank(s, c) ==
  IF c \in ToSet(s) THEN CHOOSE i \in DOMAIN s : s[i] = c /\ \A j \in DOMAIN s : s[j] = c => i <= j
                    ELSE 0
InOrderOf(s, S) == Listed(S, {p \in S \X S : Rank(s, p[1]) < Rank(s, p[2])})

Branch(order, searchable, limit) ==
  FirstOf(InOrderOf(order, ToSet(order) \cap searchable), limit)

(* Retrieve more than top_k when a reranker is to choose.                  *)
CandidateLimit(g) == IF g.rerank /\ g.rerankLimit > g.topK THEN g.rerankLimit ELSE g.topK

(* fuseHybrid: 1 / (k + rank) from each branch, as <<numerator, denominator>>. *)
ScoreMissingAsZero(near, match, k, c) ==   \* mutant: no rank counts as rank 0
  LET v == Rank(near, c)
      f == Rank(match, c)
  IN <<(k + f) + (k + v), (k + v) * (k + f)>>
Score(near, match, k, c) ==
  LET v == Rank(near, c)
      f == Rank(match, c)
  IN CASE v > 0 /\ f > 0 -> <<(k + f) + (k + v), (k + v) * (k + f)>>
       [] v > 0 /\ f = 0 -> <<1, k + v>>
       [] OTHER -> <<1, k + f>>

Higher(s, t) == s[1] * t[2] > t[1] * s[2]

(* On equal scores: the vector branch's first, nearest first, identity.    *)
Precedes(near, match, k, a, b) ==
  LET sa == Score(near, match, k, a)
      sb == Score(near, match, k, b)
      dist(c) == IF Rank(near, c) > 0 THEN Distance[c] ELSE 0
  IN \/ Higher(sa, sb)
     \/ /\ ~Higher(sb, sa)
        /\ \/ Rank(near, a) > 0 /\ Rank(near, b) = 0
           \/ /\ (Rank(near, a) > 0) = (Rank(near, b) > 0)
              /\ dist(a) < dist(b) \/ (dist(a) = dist(b) /\ a < b)

Fuse(near, match, k, limit) ==
  LET hits == ToSet(near) \cup ToSet(match)
  IN FirstOf(Listed(hits, {p \in hits \X hits : Precedes(near, match, k, p[1], p[2])}), limit)

(* SelectContext: whole chunks in rank order, up to the first misfit.      *)
Characters(s) == UNION {{i} \X (1..Size[s[i]]) : i \in DOMAIN s}
Total(s) == Cardinality(Characters(s))
SelectWhatFits(evidence) ==   \* mutant: a misfit is skipped
  FoldLeft(LAMBDA kept, c : IF Total(kept) + Size[c] > Budget THEN kept ELSE Append(kept, c),
           <<>>, evidence)
SelectContext(evidence) ==
  LET fits == {n \in 0..Len(evidence) : Total(FirstOf(evidence, n)) <= Budget}
  IN FirstOf(evidence, CHOOSE n \in fits : \A m \in fits : m <= n)

(* mapCitations: "ok" or the code, and the chunks cited, in the order of   *)
(* their first mention.                                                    *)
AllMentions(cites) == cites   \* mutant
FirstMentions(cites) == InOrderOf(cites, ToSet(cites))

CitationCode(text, context) ==
  CASE text.insufficient -> "ok"
    [] ~text.insufficient /\ ~(ToSet(text.cites) \subseteq DOMAIN context) -> "citation_invalid"
    [] ~text.insufficient /\ text.cites = <<>> -> "citation_missing"
    [] OTHER -> "ok"

Cited(text, context) ==
  LET numbers == FirstMentions(text.cites) IN [i \in DOMAIN numbers |-> context[numbers[i]]]

(* computeCost: TRUE when a cost can be stated.                            *)
Reported(tokens) == tokens # <<>> /\ tokens[1] >= 0
CostKnown(req) ==
  req.config.priced /\ \A t \in {req.embedded, req.input, req.output} : Reported(t)
----------------------------------------------------------------------------
At(q, pc) == requests[q].pc = pc

Set(q, req) == /\ requests' = [requests EXCEPT ![q] = req]
               /\ UNCHANGED <<corpus, traces, replies, torn>>

(* fail: the trace is written before the error is returned.                *)
Fail(q, code) == Set(q, [requests[q] EXCEPT !.pc = "persist", !.code = code])

(* ValidateChatRequest, the configuration and its capabilities; what is    *)
(* refused here is not traced.                                             *)
Begin(q, g) ==
  /\ At(q, "idle")
  /\ \/ Set(q, [Idle EXCEPT !.pc = "embed", !.config = g])
     \/ /\ requests' = [requests EXCEPT ![q].pc = "end"]
        /\ \E code \in {"validation_error", "not_found", "persistence_failed"} :
             replies' = [replies EXCEPT ![q] = [NoReply EXCEPT !.kind = "error", !.code = code]]
        /\ UNCHANGED <<corpus, traces, torn>>

EmbedQuestion(q) ==
  /\ At(q, "embed")
  /\ \/ \E t \in Usage : Set(q, [requests[q] EXCEPT !.pc = "vector", !.embedded = t])
     \/ Fail(q, "embedding_failed")

AfterRetrieval(g) == IF g.rerank THEN "rerank" ELSE "prompt"

(* The vector branch; an empty one ends retrieval in either mode.          *)
RetrieveVector(q) ==
  LET g == requests[q].config
      near == Branch(Nearness, Searchable(g),
                     IF g.hybrid THEN g.vectorLimit ELSE CandidateLimit(g))
  IN
  /\ At(q, "vector")
  /\ \/ Set(q, [requests[q] EXCEPT
                  !.near = near,
                  !.evidence = IF g.hybrid THEN <<>> ELSE near,
                  !.pc = IF near = <<>> THEN "boundary"
                         ELSE IF g.hybrid THEN "text" ELSE AfterRetrieval(g)])
     \/ Fail(q, "retrieval_failed")

(* The full-text branch, a statement of its own, and the fusion.           *)
RetrieveText(q) ==
  LET g == requests[q].config IN
  /\ At(q, "text")
  /\ \/ Set(q, [requests[q] EXCEPT
                  !.evidence = Fuse(requests[q].near, Branch(Matches, Searchable(g), g.textLimit),
                                    g.k, CandidateLimit(g)),
                  !.pc = AfterRetrieval(g)])
     \/ Fail(q, "retrieval_failed")

ClassifyBoundary(q) ==
  /\ At(q, "boundary")
  /\ \/ Fail(q, IF BoundaryExists(requests[q].config) THEN "retrieval_empty"
                ELSE "revision_unavailable")
     \/ Fail(q, "retrieval_failed")

(* The reranker promises nothing; its answer must be a permutation of the  *)
(* candidates.  0 is an identity it was not given.                         *)
RerankAnswers(evidence) ==
  UNION {[1..n -> ToSet(evidence) \cup {0}] : n \in {Len(evidence) - 1, Len(evidence)}}
Acceptable(answer, evidence) ==
  /\ Len(answer) = Len(evidence)
  /\ IsInjective(answer) /\ ToSet(answer) \subseteq ToSet(evidence)

Rerank(q) ==
  /\ At(q, "rerank")
  /\ \/ \E answer \in RerankAnswers(requests[q].evidence) :
          IF Acceptable(answer, requests[q].evidence)
          THEN Set(q, [requests[q] EXCEPT
                         !.evidence = FirstOf(answer, requests[q].config.topK), !.pc = "prompt"])
          ELSE Fail(q, "rerank_failed")
     \/ Fail(q, "rerank_failed")

(* SelectContext and BuildPrompt; the prompt version or the generation     *)
(* profile may be unknown.                                                 *)
BuildPrompt(q) ==
  LET built == [requests[q] EXCEPT !.context = SelectContext(requests[q].evidence)] IN
  /\ At(q, "prompt")
  /\ \/ Set(q, [built EXCEPT !.pc = "generate"])
     \/ Set(q, [built EXCEPT !.pc = "persist", !.code = "capability_unavailable"])

(* Usage is kept when generation fails, too.                               *)
Texts(context) ==
  {Insufficient} \cup
  {[insufficient |-> FALSE, cites |-> s] :
     s \in UNION {[1..n -> 0..Len(context) + 1] : n \in 0..MaxCites}}

Generate(q) ==
  /\ At(q, "generate")
  /\ \E input, output \in Usage :
       LET used == [requests[q] EXCEPT !.input = input, !.output = output] IN
       \/ \E text \in Texts(requests[q].context) :
            Set(q, [used EXCEPT !.answer = text, !.pc = "cite"])
       \/ \E code \in {"model_failed", "model_timeout"} :
            Set(q, [used EXCEPT !.pc = "persist", !.code = code])

MapCitations(q) ==
  LET req == requests[q]
      code == CitationCode(req.answer, req.context)
  IN
  /\ At(q, "cite")
  /\ Set(q, [req EXCEPT !.pc = "persist", !.code = code,
                        !.citations = IF code = "ok" THEN Cited(req.answer, req.context) ELSE <<>>])

(* persistTrace: trace and spans in one transaction, with a deadline of    *)
(* its own.  A commit whose answer is lost is reported as failed.          *)
TraceOf(req) ==
  [success |-> req.code = "ok", code |-> req.code, context |-> req.context,
   answer |-> IF req.code = "ok" THEN req.answer ELSE Insufficient,
   citations |-> req.citations, cost |-> CostKnown(req)]

ReplyOf(req, code) ==
  IF code = "ok"
  THEN [kind |-> "answer", code |-> "ok", answer |-> req.answer, citations |-> req.citations,
        retrieved |-> req.context, cost |-> CostKnown(req)]
  ELSE [NoReply EXCEPT !.kind = "error", !.code = code]

ReplyAnyway(req, inserted) == req.code   \* mutant: the insert's error is ignored
ReplyCode(req, inserted) == IF inserted THEN req.code ELSE "persistence_failed"

Persist(q) ==
  LET req == requests[q] IN
  /\ At(q, "persist")
  /\ \E committed, heard \in BOOLEAN :
       /\ traces' = [traces EXCEPT ![q] = IF committed THEN Append(@, TraceOf(req)) ELSE @]
       /\ requests' = [requests EXCEPT ![q] =
            [@ EXCEPT !.pc = "reply", !.code = ReplyCode(req, committed /\ heard)]]
  /\ UNCHANGED <<corpus, replies, torn>>

Reply(q) ==
  /\ At(q, "reply")
  /\ replies' = [replies EXCEPT ![q] = ReplyOf(requests[q], requests[q].code)]
  /\ requests' = [requests EXCEPT ![q].pc = "end"]
  /\ UNCHANGED <<corpus, traces, torn>>

(* The API dies; nothing of the request is left but a committed trace.     *)
RequestDies(q) ==
  /\ requests[q].pc \notin {"idle", "end"}
  /\ Set(q, [Idle EXCEPT !.pc = "end"])

Next ==
  \/ \E r \in Revisions : Publish(r)
  \/ \E d \in Docs : Delete(d)
  \/ \E q \in Requests :
       \/ \E g \in Configs : Begin(q, g)
       \/ EmbedQuestion(q) \/ RetrieveVector(q) \/ RetrieveText(q) \/ ClassifyBoundary(q)
       \/ Rerank(q) \/ BuildPrompt(q) \/ Generate(q) \/ MapCitations(q)
       \/ Persist(q) \/ Reply(q) \/ RequestDies(q)

Spec == Init /\ [][Next]_vars
----------------------------------------------------------------------------
Answered(q) == replies[q].kind = "answer"
Untraced == {"validation_error", "not_found", "persistence_failed"}

(* pipeline.go:158: every executed outcome produces a correlated trace.    *)
(* An answer reaches its caller only with the one trace that holds it,     *)
(* its citations, its context and its cost; an error of a stage with the   *)
(* one that holds its code, and never with an answer.                      *)
ReplyIsTraced ==
  \A q \in Requests :
    /\ Answered(q) =>
         traces[q] = <<[success |-> TRUE, code |-> "ok", context |-> replies[q].retrieved,
                        answer |-> replies[q].answer, citations |-> replies[q].citations,
                        cost |-> replies[q].cost]>>
    /\ replies[q].kind = "error" /\ replies[q].code \notin Untraced =>
         Len(traces[q]) = 1 /\ ~traces[q][1].success /\ traces[q][1].code = replies[q].code

(* citations.go: an answer cites what it was given and no other chunk,     *)
(* each once; only the insufficient-evidence reply cites nothing.          *)
CitationsGrounded ==
  \A q \in Requests : Answered(q) =>
    /\ ToSet(replies[q].citations) \subseteq ToSet(replies[q].retrieved)
    /\ IsInjective(replies[q].citations)
    /\ replies[q].answer.insufficient <=> replies[q].citations = <<>>
    /\ \A n \in ToSet(replies[q].answer.cites) : n \in DOMAIN replies[q].retrieved

(* The context of a generated text is the best-ranked evidence as far as   *)
(* the budget goes: a prefix that is not empty, with no chunk twice and no *)
(* more than top_k, that the next chunk would overrun.                     *)
ContextIsRanked ==
  \A q \in Requests : LET req == requests[q] IN
    req.pc \in {"generate", "cite"} =>
      /\ req.context # <<>> /\ IsPrefix(req.context, req.evidence)
      /\ IsInjective(req.context) /\ Len(req.context) <= req.config.topK
      /\ Total(req.context) <= Budget
      /\ Len(req.context) < Len(req.evidence) =>
           Total(req.context) + Size[req.evidence[Len(req.context) + 1]] > Budget

(* The context holds one revision of a document, though its active         *)
(* revision may change at any moment, unless it did so between the two     *)
(* branches of a hybrid retrieval.                                         *)
OneRevisionPerDocument ==
  \A q \in Requests \ torn :
    \A c, e \in ToSet(requests[q].context) :
      RevisionDoc[ChunkRevision[c]] = RevisionDoc[ChunkRevision[e]] =>
        ChunkRevision[c] = ChunkRevision[e]

(* Fusion drops or demotes no chunk that both branches rank above another  *)
(* one of its evidence.                                                    *)
Beats(order, searchable, limit, a, b) ==
  LET s == Branch(order, searchable, limit)
  IN Rank(s, a) > 0 /\ (Rank(s, b) = 0 \/ Rank(s, a) < Rank(s, b))

FusionKeepsOrder ==
  [][\A q \in Requests :
       At(q, "text") /\ requests'[q].pc \in {"rerank", "prompt"} =>
         LET g == requests[q].config
             fused == requests'[q].evidence
         IN \A a \in Chunks, b \in ToSet(fused) :
              /\ Rank(requests[q].near, a) > 0
              /\ Rank(requests[q].near, b) = 0 \/ Rank(requests[q].near, a) < Rank(requests[q].near, b)
              /\ Beats(Matches, Searchable(g), g.textLimit, a, b)
              => Rank(fused, a) > 0 /\ Rank(fused, a) < Rank(fused, b)]_vars
=============================================================================
