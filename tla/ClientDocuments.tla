-------------------------- MODULE ClientDocuments --------------------------
(***************************************************************************)
(* Client ID metadata documents: a client is identified by the URL of a    *)
(* document it hosts.  Resolve answers from a bounded cache, whose entries *)
(* live as long as the host's headers say, between MinTTL and MaxTTL; or   *)
(* fetches the document, validates it and caches it.  Hosts replace their  *)
(* documents and operators change agents at any time.                      *)
(***************************************************************************)
EXTENDS Naturals, FiniteSets, Sequences

CONSTANTS
  URLs,
  Documents,   \* [private, flaws]: with a private-use redirect URI; what is wrong with it
  Resolutions, \* goroutines in Resolve
  NoDoc,
  MinTTL, MaxTTL, MaxEntries, FetchTimeout,
  MaxAges      \* max-age of the responses; 0 when there is none

VARIABLES
  docTime,
  hosted,     \* the document at each URL
  replaced,   \* history: when it was replaced last
  docCache,
  listed,     \* whether the agent lists the private-use redirect URI
  resolve,
  docBounds   \* bounds: resolutions, replacements, changes of the agent, and ticks to come

docVars == <<docTime, hosted, replaced, docCache, listed, resolve, docBounds>>
hosts == <<hosted, replaced>>
Charge(b) == docBounds[b] > 0 /\ docBounds' = [docBounds EXCEPT ![b] = @ - 1]

Resolution == [pc : {"none", "cache", "fetch", "fetched", "resolved", "rejected", "unavailable"}, url : URLs \cup {NoDoc},
               agent : BOOLEAN, doc : Documents \cup {NoDoc}, since : Nat]
NoResolution == [pc |-> "none", url |-> NoDoc, agent |-> FALSE, doc |-> NoDoc, since |-> 0]
Answer_(r, pc, doc) == resolve' = [resolve EXCEPT ![r].pc = pc, ![r].doc = doc, ![r].since = 0]

(* What ParseDocument checks, in its order.                                *)
DocumentChecks ==
  <<"json", "client_secret", "client_id", "redirect_uris", "token_endpoint_auth_method", "key source",
    "token_endpoint_auth_signing_alg", "jwks", "client_name", "redirect origin", "logo_uri">>
\* The first check a document fails, or none.
ParseDocument(doc) ==
  LET failed == SelectSeq(DocumentChecks, LAMBDA c : c \in doc.flaws) IN IF failed = <<>> THEN NoDoc ELSE Head(failed)
\* Callbacks of private-use schemes have to be on the agent's own list.
ValidatePrivateUseRedirectURIs(doc, agent) == doc.private => agent

(* A request names a client, whose agent the caller has read.              *)
Resolve(r) ==
  /\ resolve[r].pc \notin {"cache", "fetch", "fetched"} /\ Charge("calls")
  /\ \E u \in URLs : resolve' = [resolve EXCEPT ![r] = [pc |-> "cache", url |-> u, agent |-> listed, doc |-> NoDoc, since |-> 0]]
  /\ UNCHANGED <<docTime, hosts, docCache, listed>>

Valid(entry) == IF entry = NoDoc THEN FALSE ELSE docTime <= entry.expiresAt
Entries == {u \in URLs : docCache[u] # NoDoc}

Reusable(doc, agent) == ValidatePrivateUseRedirectURIs(doc, agent)
(* A valid entry answers, an expired one is dropped.                       *)
Get(r) ==
  LET entry == docCache[resolve[r].url]
  IN  /\ resolve[r].pc = "cache"
      /\ IF Valid(entry)
         THEN /\ IF Reusable(entry.doc, resolve[r].agent) THEN Answer_(r, "resolved", entry.doc)
                 ELSE Answer_(r, "rejected", NoDoc)
              /\ UNCHANGED docCache
         ELSE /\ docCache' = [docCache EXCEPT ![resolve[r].url] = NoDoc]
              /\ resolve' = [resolve EXCEPT ![r].pc = "fetch"]
      /\ UNCHANGED <<docTime, hosts, listed, docBounds>>

\* Mutant: the host's headers are followed however long they allow.
DeriveTTL_Unclamped(maxAge) == IF maxAge < MinTTL THEN MinTTL ELSE maxAge
\* The max-age, within the operator's bounds.
DeriveTTL(maxAge) == IF maxAge < MinTTL THEN MinTTL ELSE IF maxAge > MaxTTL THEN MaxTTL ELSE maxAge

\* A full cache drops the entry that was fetched longest ago.
Evicted(u) ==
  IF u \in Entries \/ Cardinality(Entries) < MaxEntries THEN {}
  ELSE {CHOOSE o \in Entries : \A e \in Entries : docCache[o].fetchedAt <= docCache[e].fetchedAt}
Set(u, doc, maxAge) ==
  LET evicted == Evicted(u)
  IN  docCache' = [e \in URLs |-> IF e = u THEN [doc |-> doc, fetchedAt |-> docTime, expiresAt |-> docTime + DeriveTTL(maxAge)]
                                  ELSE IF e \in evicted THEN NoDoc ELSE docCache[e]]

(* The host answers with its document, ...                                 *)
FetchDocument(r) ==
  /\ resolve[r].pc = "fetch"
  /\ resolve' = [resolve EXCEPT ![r].pc = "fetched", ![r].doc = hosted[resolve[r].url], ![r].since = docTime]
  /\ UNCHANGED <<docTime, hosts, docCache, listed, docBounds>>
\* ... with an error of its own or an address that is blocked, or not at all.
FetchDocumentFails(r) ==
  /\ resolve[r].pc = "fetch" /\ \E pc \in {"rejected", "unavailable"} : Answer_(r, pc, NoDoc)
  /\ UNCHANGED <<docTime, hosts, docCache, listed, docBounds>>

(* The document is parsed, checked, and cached as of now.                  *)
StoreDocument(r) ==
  LET doc == resolve[r].doc
  IN  /\ resolve[r].pc = "fetched"
      /\ IF ParseDocument(doc) = NoDoc /\ ValidatePrivateUseRedirectURIs(doc, resolve[r].agent)
         THEN (\E age \in MaxAges : Set(resolve[r].url, doc, age)) /\ Answer_(r, "resolved", doc)
         ELSE Answer_(r, "rejected", NoDoc) /\ UNCHANGED docCache
      /\ UNCHANGED <<docTime, hosts, listed, docBounds>>

HostReplaces ==
  /\ Charge("replacements")
  /\ \E u \in URLs, d \in Documents : d # hosted[u] /\ hosted' = [hosted EXCEPT ![u] = d]
       /\ replaced' = [replaced EXCEPT ![u] = docTime]
  /\ UNCHANGED <<docTime, docCache, listed, resolve>>
AgentChanges ==
  /\ Charge("agents") /\ listed' = ~listed
  /\ UNCHANGED <<docTime, hosts, docCache, resolve>>
DocTick ==
  /\ \A r \in Resolutions : resolve[r].pc = "fetched" => docTime < resolve[r].since + FetchTimeout
  /\ Charge("ticks") /\ docTime' = docTime + 1
  /\ UNCHANGED <<hosts, docCache, listed, resolve>>

DocInit(first, bounds) ==
  /\ docTime = 0 /\ hosted = [u \in URLs |-> first] /\ replaced = [u \in URLs |-> 0]
  /\ docCache = [u \in URLs |-> NoDoc] /\ listed = TRUE
  /\ resolve = [r \in Resolutions |-> NoResolution] /\ docBounds = bounds
DocNext ==
  \/ \E r \in Resolutions : Resolve(r) \/ Get(r) \/ FetchDocument(r) \/ FetchDocumentFails(r) \/ StoreDocument(r)
  \/ HostReplaces \/ AgentChanges \/ DocTick

(* ------------------------------ properties ----------------------------- *)

\* Calls have their types and the cache keeps to its size.
DocTypeInvariant ==
  /\ resolve \in [Resolutions -> Resolution]
  /\ Cardinality(Entries) <= MaxEntries

(* A document a host has replaced, say one with a callback or a key taken  *)
(* out of it, is answered for at most the fetch and MaxTTL longer, also    *)
(* where a slow fetch of it is cached over its successor, and whatever the *)
(* headers of its response asked for.                                      *)
ReplacedDocumentFades ==
  [][\A r \in Resolutions : resolve'[r].pc = "resolved" /\ resolve[r].pc # "resolved" =>
       LET u == resolve[r].url IN resolve'[r].doc = hosted[u] \/ docTime <= replaced[u] + FetchTimeout + MaxTTL]_docVars

(* No answer, cached or fetched, carries a private-use callback that the   *)
(* agent of this very request does not list.                               *)
PrivateUseIsListed ==
  \A r \in Resolutions : resolve[r].pc = "resolved" /\ resolve[r].doc.private => resolve[r].agent
=============================================================================
