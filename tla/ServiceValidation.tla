------------------------- MODULE ServiceValidation -------------------------
(* How a service an administrator sends becomes a stored row and is read    *)
(* back: decoding, the validations of handler, service, store and reader,   *)
(* protected-resource discovery with the client it registers, encryption    *)
(* and the two conversions.  One service, one request at a time (the        *)
(* interleavings of requests are ProviderRegistry's).  A URL, a scope or a  *)
(* name is valid; what is kept is which credentials a service has.          *)
EXTENDS Naturals, Sequences, FiniteSets

\* Forms holds the requests: credential source, canonical identifier,
\* client_registration, authentication method, flavor, and whether there are a
\* client_id, a client_secret, a discovery resource, endpoints, and parameters
\* that carry client credentials ("" and FALSE stand for an absent member).
CONSTANT Forms

VARIABLES record,      \* the stored row
          entity,      \* the entity of the request in progress
          step,        \* what happens to it next
          registered,  \* a client was registered for it at the server
          answer       \* the code of the discovery failure answered last

validationVars == <<record, entity, step, registered, answer>>

NoRecord == [source |-> "none"]
NoEntity == [source |-> "none"]

Methods == {"client_secret_basic", "none"}
ResolveClientRegistration(auth) == IF auth = "private_key_jwt" THEN "cimd" ELSE "static"
IsSecretless(e) == e.auth \in {"none", "private_key_jwt"}

\* validateCredentialSource and validateClientRegistration fill in what is absent.
Defaulted(e) == [e EXCEPT !.source = IF @ = "" THEN "stored" ELSE @,
                          !.registration = IF @ = "" THEN ResolveClientRegistration(e.auth) ELSE @]

----------------------------------------------------------------------------
\* The checks of the model package, each on a defaulted entity.

validateCredentialSource(e) ==
    e.source = "filesystem" =>
        /\ e.auth = "" /\ e.flavor # "google" /\ ~e.resource /\ e.method = ""
        /\ e.canonical /\ e.client = "" /\ e.secret = "absent"

validateClientRegistration(e) ==
    IF e.registration = "cimd"
    THEN e.flavor # "google" /\ e.source # "filesystem" /\ IsSecretless(e) /\ e.method # "dcr"
    ELSE e.auth # "private_key_jwt" /\ e.method # "cimd"

validateResourceSource(e) == ~e.resource => e.method = ""

validateDCRClientAuthentication(e) ==
    /\ e.client # "" /\ e.flavor = "standard"
    /\ \/ e.auth = "client_secret_basic" /\ e.secret # "absent"
       \/ e.auth = "none" /\ e.secret = "absent"


validateClientAuthentication(e) ==
    /\ validateClientRegistration(e) /\ validateCredentialSource(e)
    /\ \/ e.source = "filesystem"
       \/ /\ e.auth = "client_secret_basic" => e.method = "dcr" /\ e.resource
          /\ CASE e.registration = "cimd" -> e.secret = "absent" /\ e.client = ""
               [] e.registration # "cimd" /\ e.auth = "none" -> e.flavor # "google" /\ e.secret = "absent" /\ e.client # ""
               [] OTHER -> e.secret # "absent"

validateDiscoverySelection(e) ==
    /\ validateResourceSource(e)
    /\ e.resource => \/ e.method = "cimd" /\ e.auth = "private_key_jwt" /\ e.secret = "absent" /\ e.client = ""
                     \/ e.method = "dcr" /\ validateDCRClientAuthentication(e)

\* Mutant: a flavor that discovery cannot serve is let through until after the registration.
ValidateDiscoveryRequest_AnyFlavor(e) ==
    /\ e.registration = "" /\ e.resource /\ e.method = "" /\ e.source # "filesystem"
    /\ e.client = "" /\ e.secret = "absent" /\ e.auth = "" /\ ~e.endpoints

ValidateDiscoveryRequest(e) ==
    /\ e.registration = "" /\ validateCredentialSource(e) /\ e.resource /\ e.method = ""
    /\ e.client = "" /\ e.secret = "absent" /\ e.auth = "" /\ ~e.endpoints /\ e.flavor = "standard"

ValidateOutboundCredentials(e) == validateCredentialSource(e) /\ (IsSecretless(e) => ~e.loose)

\* The key document of a Google client names the client and the endpoints.
enrichForGoogleFlavor(e) ==
    IF e.flavor = "google" THEN [e EXCEPT !.client = "google", !.endpoints = TRUE] ELSE e

HasCredential(e) == IsSecretless(e) \/ e.registration = "cimd" \/ e.source = "filesystem"

ValidateForCreate(raw) ==
    LET e == Defaulted(raw) IN
    /\ validateDiscoverySelection(e) /\ validateClientAuthentication(e)
    /\ HasCredential(e) \/ e.secret = "plain"
    /\ e.flavor # "google" => /\ e.client = "" => e.registration = "cimd" \/ e.source = "filesystem"
                              /\ e.endpoints
    /\ ValidateOutboundCredentials(e)

ValidateForUpdate(raw) ==
    LET e == Defaulted(raw) IN
    /\ validateDiscoverySelection(e) /\ validateClientAuthentication(e)
    /\ HasCredential(e) \/ e.secret = "plain" \/ (e.method = "dcr" /\ e.secret = "encrypted")
    /\ e.flavor # "google" => /\ e.client = "" => e.registration = "cimd" \/ e.source = "filesystem"
                              /\ e.endpoints
    /\ ValidateOutboundCredentials(e)

ValidateStoredClientAuthentication(e) ==
    /\ validateClientRegistration(e) /\ validateCredentialSource(e) /\ validateResourceSource(e)
    /\ e.status = e.resource
    /\ \/ e.source = "filesystem"
       \/ /\ CASE e.method = "dcr" -> validateDCRClientAuthentication(e)
               [] e.method = "cimd" -> e.auth = "private_key_jwt"
               [] OTHER -> e.auth # "client_secret_basic"
          /\ IsSecretless(e) <=> e.secret = "absent"
          /\ e.secret \in {"absent", "encrypted"}

----------------------------------------------------------------------------
\* The conversions of the PostgreSQL store.

clientAuthenticationFromRecord(r) ==
    /\ IF r.registration = "cimd"
       THEN /\ r.source = "stored" /\ ~r.ciphertext /\ r.flavor # "google" /\ r.method # "dcr" /\ IsSecretless(r)
       ELSE r.auth # "private_key_jwt" /\ r.method # "cimd"
    /\ r.method = "cimd" => r.auth = "private_key_jwt"
    /\ CASE r.source = "filesystem" ->
              r.client = "" /\ ~r.ciphertext /\ r.auth = "" /\ ~r.resource /\ r.method = "" /\ r.flavor # "google" /\ r.canonical
         [] r.source = "stored" ->
              /\ r.client # ""
              /\ CASE r.auth = "client_secret_basic" -> r.method = "dcr" /\ r.ciphertext
                   [] IsSecretless(r) -> ~r.ciphertext
                   [] OTHER -> r.ciphertext
         [] OTHER -> FALSE

entityToRecord(e) ==
    [source |-> e.source, canonical |-> e.canonical, registration |-> e.registration, auth |-> e.auth,
     flavor |-> e.flavor, client |-> e.client, ciphertext |-> e.secret = "encrypted",
     resource |-> e.resource, method |-> e.method, status |-> e.status, moved |-> e.moved]

Storable(e) == ValidateStoredClientAuthentication(e) /\ clientAuthenticationFromRecord(entityToRecord(e))


recordToEntity(r) ==
    [source |-> r.source, canonical |-> r.canonical, registration |-> r.registration, auth |-> r.auth,
     flavor |-> r.flavor, client |-> r.client, secret |-> IF r.ciphertext THEN "encrypted" ELSE "absent",
     resource |-> r.resource, method |-> r.method, status |-> r.status, moved |-> r.moved,
     endpoints |-> TRUE, loose |-> FALSE, op |-> "read"]

\* What readers make of a stored entity: token acquisition decrypts the secret
\* of a confidential client, hosted metadata is served for a CIMD client whose
\* client_id start-up verifies, and a response hides secrets.
decryptSecret(e) == [e EXCEPT !.secret = "plain"]

GetForTokenAcquisition(e) ==
    IF e.source = "filesystem" \/ IsSecretless(e) \/ e.secret = "plain" THEN e ELSE decryptSecret(e)

GetCIMDClientService(e) == e.registration = "cimd" /\ e.client # ""

VerifyCIMDServiceIdentities(e) == e.registration = "cimd" => e.client = "hosted"

toResponse(e) == [client |-> e.source # "filesystem",
                  redacted |-> e.source # "filesystem" /\ ~IsSecretless(e) /\ e.method # "dcr"]

----------------------------------------------------------------------------
ValidationInit == record = NoRecord /\ entity = NoEntity /\ step = "idle" /\ registered = FALSE /\ answer = ""

\* The authentication method and the secret of a request body; the body is
\* refused when it names what the broker selects itself.
serviceClientAuthentication(f) ==
    IF f.resource THEN f.auth = "" /\ ~f.endpoints
    ELSE f.auth = "private_key_jwt" => ~f.client /\ ~f.secret

EntityOf(f, op) ==
    [source |-> f.source, canonical |-> f.canonical = "given", registration |-> f.registration, auth |-> f.auth,
     flavor |-> f.flavor, client |-> IF f.client THEN "sent" ELSE "", secret |-> IF f.secret THEN "plain" ELSE "absent",
     resource |-> f.resource, method |-> "", status |-> FALSE, moved |-> FALSE,
     endpoints |-> f.flavor # "google" /\ f.endpoints, loose |-> f.loose, op |-> op]


Failed(code) ==
    answer' = code /\ entity' = NoEntity /\ step' = "failed" /\ registered' = FALSE /\ UNCHANGED record

Proceed(e) ==
    /\ entity' = e /\ step' = IF e.resource THEN "probe" ELSE "validate"
    /\ UNCHANGED <<record, registered, answer>>

CreateRequest(f) ==
    LET e == EntityOf(f, "create") IN
    /\ step = "idle" /\ record = NoRecord /\ serviceClientAuthentication(f)
    /\ IF f.resource THEN ValidateDiscoveryRequest(e) ELSE ValidateForCreate(e)
    /\ Proceed(IF f.resource THEN e ELSE enrichForGoogleFlavor(e))

\* What the request leaves out is taken from the row; a service that returns
\* from the filesystem must bring its credentials.

Retained(e, f) ==
    [e EXCEPT !.source = IF @ = "" THEN record.source ELSE @,
              !.canonical = IF f.canonical = "omitted" THEN record.canonical ELSE @,
              !.moved = record.moved \/ record.source # (IF e.source = "" THEN record.source ELSE e.source)]

UpdateRequest(f) ==
    LET sent == EntityOf(f, "update")
        e == Retained(sent, f)
        early == \/ sent.source # "filesystem" /\ (sent.secret # "absent" \/ sent.client # "")
                 \/ IsSecretless(sent) \/ sent.flavor = "google"
    IN  /\ step = "idle" /\ record # NoRecord /\ serviceClientAuthentication(f)
        /\ IF f.resource THEN ValidateDiscoveryRequest(sent) ELSE early => ValidateForUpdate(sent)
        /\ record.source = "filesystem" /\ e.source = "stored" => e.secret = "plain" /\ e.client # ""
        /\ IF f.resource THEN ValidateDiscoveryRequest(e) ELSE ValidateForUpdate(e)
        /\ IF f.resource /\ record.method = ""
           THEN Failed("client_method_changed")
           ELSE Proceed(IF f.resource THEN e ELSE enrichForGoogleFlavor(e))

Advance(next) == step' = next /\ UNCHANGED <<record, entity, registered, answer>>

\* How the requests of the discovery client may end: Probe reads no document,
\* PostJSON takes any status but 201 for a rejection.
Probe == {"ok", "timeout", "unsafe", "large", "down"}
GetJSON == Probe \union {"missing", "malformed"}
PostJSON == Probe \union {"rejected", "malformed"}


discoveryReadFailure(o, document) ==
    CASE o = "timeout" -> "timeout"
      [] o = "unsafe" -> "unsafe_destination"
      [] o = "large" -> "response_too_large"
      [] o = "missing" -> document \o "_not_found"
      [] o = "malformed" -> document \o "_invalid"
      [] OTHER -> document \o "_unavailable"

\* The unauthenticated probe and the challenge it is answered with.
resourceProbe ==
    /\ step = "probe"
    /\ \E o \in Probe, challenge \in {"none", "metadata", "invalid"} :
          CASE o # "ok" -> Failed(discoveryReadFailure(o, "resource_metadata"))
            [] o = "ok" /\ challenge = "invalid" -> Failed("resource_metadata_invalid")
            [] OTHER -> Advance("resource")

\* The protected-resource document; "servers" counts the issuers it advertises
\* and "named" says that the request's issuer is among them.
resourceIssuer ==
    /\ step = "resource"
    /\ \E o \in GetJSON, fits \in BOOLEAN, servers \in 0..2, named \in {"none", "yes", "no"} :
          CASE o # "ok" -> Failed(discoveryReadFailure(o, "resource_metadata"))
            [] o = "ok" /\ ~fits -> Failed("resource_mismatch")
            [] o = "ok" /\ fits /\ servers = 0 -> Failed("authorization_server_missing")
            [] o = "ok" /\ fits /\ servers > 0 /\ named = "no" -> Failed("issuer_not_advertised")
            [] o = "ok" /\ fits /\ servers > 1 /\ named = "none" -> Failed("issuer_selection_required")
            [] OTHER -> Advance("issuer")

issuerMetadata ==
    /\ step = "issuer"
    /\ \E o \in GetJSON, same \in BOOLEAN :
          CASE o # "ok" -> Failed(discoveryReadFailure(o, "authorization_server_metadata"))
            [] o = "ok" /\ ~same -> Failed("issuer_mismatch")
            [] OTHER -> Advance("select")

\* What the server's metadata supports: CIMD, and DCR methods it registers.
Metadata == [cimd : BOOLEAN, registers : BOOLEAN, methods : SUBSET Methods]

supportsDCRMethod(m, method) == m.registers /\ method \in m.methods

PreferredMethod(m) == IF "client_secret_basic" \in m.methods THEN "client_secret_basic" ELSE "none"

Select(method, auth) ==
    /\ entity' = [entity EXCEPT !.method = method, !.auth = auth, !.registration = ResolveClientRegistration(auth), !.endpoints = TRUE]
    /\ step' = IF method = "dcr" THEN "register" ELSE "validate"
    /\ UNCHANGED <<record, registered, answer>>

requireCIMDKey(auth) == \/ Select("cimd", auth)
                        \/ Failed("cimd_unavailable")

discoverProtectedResource(m) ==
    /\ step = "select" /\ entity.op = "create"
    /\ CASE m.cimd -> requireCIMDKey("private_key_jwt")
         [] ~m.cimd /\ m.registers /\ m.methods # {} -> Select("dcr", PreferredMethod(m))
         [] OTHER -> Failed("no_compatible_client_method")

\* An update keeps method and client; only a new issuer needs a new client.
prepareDiscoveryUpdate(m, newIssuer) ==
    /\ step = "select" /\ entity.op = "update"
    /\ CASE record.method = "cimd" -> IF m.cimd THEN requireCIMDKey(record.auth) ELSE Failed("client_method_changed")
         [] record.method # "cimd" /\ (record.auth \notin m.methods \/ (newIssuer /\ ~supportsDCRMethod(m, record.auth))) ->
              Failed("client_method_changed")
         [] record.method # "cimd" /\ record.auth \in m.methods /\ newIssuer /\ supportsDCRMethod(m, record.auth) ->
              Select("dcr", record.auth)
         [] OTHER -> /\ entity' = [entity EXCEPT !.method = "dcr", !.auth = record.auth, !.client = record.client, !.endpoints = TRUE,
                                     !.registration = "static", !.secret = IF record.ciphertext THEN "encrypted" ELSE "absent"]
                     /\ step' = "validate" /\ UNCHANGED <<record, registered, answer>>

RegistrationFailure(o) ==
    CASE o = "timeout" -> "timeout"
      [] o = "unsafe" -> "unsafe_destination"
      [] o = "large" -> "response_too_large"
      [] o = "malformed" -> "client_registration_invalid"
      [] OTHER -> "client_registration_rejected"

\* The response must name a client and the method, with a secret that does not
\* expire exactly when the method uses one.
validateRegistrationResponse(r, auth) == r.named /\ r.method = auth /\ ~r.expires /\ r.secret = (auth # "none")

registerDCRClient ==
    /\ step = "register"
    /\ \E o \in PostJSON \union {"unnamed"}, r \in [named : BOOLEAN, method : Methods, expires : BOOLEAN, secret : BOOLEAN] :
          CASE o = "ok" /\ validateRegistrationResponse(r, entity.auth) ->
                 /\ entity' = [entity EXCEPT !.client = "registered", !.secret = IF r.secret THEN "plain" ELSE "absent"]
                 /\ step' = "validate" /\ registered' = TRUE /\ UNCHANGED <<record, answer>>
            [] o = "unnamed" -> Failed("client_name_unconfigured")
            [] o = "ok" /\ ~validateRegistrationResponse(r, entity.auth) -> Failed("client_registration_invalid")
            [] OTHER -> Failed(RegistrationFailure(o))

Valid(e) == IF e.op = "create" THEN ValidateForCreate(e) ELSE ValidateForUpdate(e)

\* The hosted client_id of a CIMD service, assigned after validation.
CIMDClientID(e) == IF e.registration = "cimd" THEN [e EXCEPT !.client = "hosted"] ELSE e

Encrypted(e) ==
    IF e.source # "filesystem" /\ ~IsSecretless(e) /\ e.secret = "plain" THEN [e EXCEPT !.secret = "encrypted"] ELSE e

\* The service layer: validation once more, the identity, branch key and
\* encryption (each may fail).
Accept ==
    /\ step = "validate"
    /\ IF Valid(entity)
       THEN /\ entity' = [Encrypted(CIMDClientID(enrichForGoogleFlavor(Defaulted(entity)))) EXCEPT !.status = entity.resource]
            /\ step' = "store" /\ UNCHANGED <<record, registered, answer>>
       ELSE Failed("")

Fail == step \in {"validate", "store"} /\ Failed("")

StoreRecord ==
    /\ step = "store"
    /\ record' = IF Storable(entity) THEN entityToRecord(entity) ELSE record
    /\ entity' = NoEntity /\ step' = "idle" /\ registered' = FALSE /\ UNCHANGED answer

\* The handler answers with the code.
writeDiscoveryError ==
    step = "failed" /\ step' = "idle" /\ answer' = "" /\ UNCHANGED <<record, entity, registered>>

ValidationNext ==
    \/ \E f \in Forms : CreateRequest(f) \/ UpdateRequest(f)
    \/ resourceProbe \/ resourceIssuer \/ issuerMetadata
    \/ \E m \in Metadata : discoverProtectedResource(m) \/ \E n \in BOOLEAN : prepareDiscoveryUpdate(m, n)
    \/ registerDCRClient \/ Accept \/ Fail \/ StoreRecord \/ writeDiscoveryError

----------------------------------------------------------------------------
\* The codes the handler passes on; any other is an internal error.
AnsweredCodes ==
    {"resource_metadata_not_found", "resource_metadata_unavailable", "resource_metadata_invalid", "resource_mismatch",
     "authorization_server_missing", "issuer_selection_required", "issuer_not_advertised",
     "authorization_server_metadata_not_found", "authorization_server_metadata_unavailable",
     "authorization_server_metadata_invalid", "issuer_mismatch", "unsafe_destination", "response_too_large",
     "no_compatible_client_method", "cimd_unavailable", "client_registration_rejected", "client_name_unconfigured",
     "client_registration_invalid", "client_method_changed", "timeout"}

\* The request in progress is at a known step, and an entity is there exactly
\* while one is.
ValidationTypeInvariant ==
    /\ step \in {"idle", "probe", "resource", "issuer", "select", "register", "validate", "store", "failed"}
    /\ (step \in {"idle", "failed"}) = (entity = NoEntity)
    /\ registered => step \in {"validate", "store"}

\* What the service layer accepts, the store accepts: once branch key,
\* identity and ciphertext are made, entityToRecord refuses nothing.
AcceptedIsStorable == step = "store" => Storable(entity)

\* A row that was written can be read, and read as what was written: the
\* reader finds exactly one way for the service to authenticate.
StoredIsReadable ==
    record # NoRecord =>
        LET e == recordToEntity(record) IN
        /\ clientAuthenticationFromRecord(record) /\ ValidateStoredClientAuthentication(e)
        /\ VerifyCIMDServiceIdentities(e)
        /\ toResponse(e).redacted => e.secret = "encrypted"
        /\ Cardinality({w \in {"files", "secret", "hosted key", "public"} :
              \/ w = "files" /\ ~toResponse(e).client
              \/ w = "secret" /\ GetForTokenAcquisition(e).secret = "plain"
              \/ w = "hosted key" /\ GetCIMDClientService(e) /\ e.auth = "private_key_jwt"
              \/ w = "public" /\ e.auth = "none" /\ e.client # ""}) = 1

\* A client that was registered at the authorization server is not lost to a
\* late validation, with one exception: a server that only registers public
\* clients, and parameters or a token endpoint that carry credentials.
RegisteredClientIsKept ==
    registered /\ step = "validate" => Valid(entity) \/ (entity.auth = "none" /\ entity.loose)

\* Every discovery failure the steps can end in is one the handler passes on
\* to the administrator rather than an internal error.
FailuresAreAnswered == answer \in AnsweredCodes \union {""}

\* A change of the credential source is remembered by the row for good.
SourceChangeIsRemembered ==
    [][record # NoRecord /\ record' # NoRecord
          => record'.moved = (record.moved \/ record.source # record'.source)]_validationVars
=============================================================================
