------------------------------ MODULE PacClient ------------------------------
(***************************************************************************)
(* services/timbracfdi_client.py: where a CFDI is posted and what becomes  *)
(* of the answer of the PAC, the provider that seals invoices.             *)
(*                                                                         *)
(* A reply is what arrives: a REST answer, whose body is JSON or a text,   *)
(* or the values of a SOAP envelope.  Both become one normalised result,   *)
(* which two functions read in two ways.                                   *)
(***************************************************************************)
EXTENDS Naturals, Sequences

CONSTANTS
    CfdiCodes   \* the error codes of the SAT that begin with CFDI

None == "none"
Or(a, b) == IF a # None THEN a ELSE b

RfcNotFoundCodes == {"CFDI40132", "CFDI40133", "CFDI40134", "CFDI40166"}
EmisorErrorCodes == {"CFDI40111", "CFDI40112", "CFDI40113", "CFDI40114",
                     "CFDI40139", "CFDI40140", "21001"}

ASSUME CodesAssumption ==
    /\ RfcNotFoundCodes \cup (EmisorErrorCodes \ {"21001"}) \subseteq CfdiCodes
    /\ {None, "0", "21001"} \cap CfdiCodes = {}

---------------------------------------------------------------------------
(* The settings.  A URL or a token that is not set is None.                *)

ActiveUrl(cfg) ==
    IF cfg.env = "production" THEN Or(cfg.productionUrl, cfg.legacyUrl)
                              ELSE Or(cfg.sandboxUrl, cfg.legacyUrl)

ActiveToken(cfg) ==
    IF cfg.env = "production" THEN Or(cfg.productionToken, cfg.legacyToken)
                              ELSE Or(cfg.sandboxToken, cfg.legacyToken)

IsConfigured(cfg) == ActiveUrl(cfg) # None /\ ActiveToken(cfg) # None

\* In SOAP mode one URL serves both environments.
Target(cfg) == IF cfg.soap THEN cfg.soapUrl ELSE ActiveUrl(cfg)

DemoAllowed(cfg) == cfg.env # "production" \/ cfg.demoEnabled

---------------------------------------------------------------------------
(* The reply.                                                              *)

\* What is read of a body.  errores holds the code of each entry, None where
\* it has none; mensaje is the CFDI code its text begins with.
NoBody == [codigo |-> None, codigoSat |-> None, mensaje |-> None,
           errores |-> <<>>, xml |-> None]

\* _normalize_response: a body that is no JSON object has none of the fields.
NormalizeRest(reply) ==
    [ok |-> reply.ok, body |-> IF reply.json THEN reply.body ELSE NoBody]

Value(values, i) == IF i \in DOMAIN values THEN values[i] ELSE None

\* _normalize_soap_response
NormalizeSoap(reply) ==
    CASE reply.values = <<>> -> [ok |-> FALSE, body |-> NoBody]
      [] Value(reply.values, 1) = "0" ->
            [ok |-> TRUE,
             body |-> [NoBody EXCEPT !.codigo = "0", !.xml = Value(reply.values, 2)]]
      [] OTHER ->
            [ok |-> FALSE,
             body |-> [NoBody EXCEPT !.codigoSat = Value(reply.values, 2),
                                     !.mensaje = Value(reply.values, 3)]]

Normalize(reply) == IF reply.via = "soap" THEN NormalizeSoap(reply) ELSE NormalizeRest(reply)

\* extract_stamped_document.  A list of errors is not looked at.
Stamps(result) == result.ok /\ result.body.codigo \in {None, "0"}

StampedXml(result) == result.body.xml

\* A success that says so: a code 0 or a sealed XML, and no errors.
SaysSealed(result) ==
    /\ result.ok
    /\ result.body.errores = <<>>
    /\ \/ result.body.codigo = "0"
       \/ result.body.codigo = None /\ result.body.xml # None

\* A success by its status only: a page in HTML, an empty object, a list of errors.
Unclear(result) ==
    /\ result.ok
    /\ \/ result.body.errores # <<>>
       \/ result.body.codigo = None /\ result.body.xml = None

\* validate_rfc_via_pac: an entry of errores comes first, then the codes of the
\* root, in whose place the one in the message is taken.
ErrorCode(result) ==
    LET b == result.body
    IN  CASE b.errores # <<>> -> b.errores[1]
          [] b.errores = <<>> /\ (b.codigoSat # None \/ b.codigo \notin {None, "0"}) ->
                Or(b.mensaje, Or(b.codigoSat, b.codigo))
          [] OTHER -> None

Unknown == "null"

\* Mutation: an error of the issuer counts as one of the recipient.
RfcActive_AnyCode(result) ==
    CASE result.ok /\ ErrorCode(result) = None -> "true"
      [] ErrorCode(result) # None -> "false"
      [] OTHER -> Unknown

\* rfc_valid of validate_rfc_via_pac for a reply that came
RfcActive(result) ==
    CASE result.ok /\ ErrorCode(result) = None -> "true"
      [] ErrorCode(result) \in RfcNotFoundCodes -> "false"
      [] OTHER -> Unknown
=============================================================================
