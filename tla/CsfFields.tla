------------------------------ MODULE CsfFields ------------------------------
(***************************************************************************)
(* services/ingest.py: from what is found in the text of a constancia to   *)
(* the record of its fields, the corrections an AI suggests for it and the *)
(* report on each field.  The patterns and prompts are left out; what they *)
(* find, and what the services answer, is given.                           *)
(***************************************************************************)
EXTENDS Naturals, Sequences, FiniteSetsExt

CONSTANTS
    Fields,      \* the fields of CSF_FIELD_SPECS that are represented
    Values,      \* the values that are found or suggested
    Valid,       \* Valid[f]: the values with the format of f
    GroqParser,  \* GROQ_PARSER_ENABLED, with a key
    GroqFixes,   \* AI_FIELD_CORRECTION_ENABLED, with a key
    OpenAi,      \* AI_FIELD_VALIDATION_ENABLED
    Confident    \* the thresholds of confidence, by service

Empty == ""
Null == "null"
Unread == "DESCONOCIDO"
Unnamed == "SIN NOMBRE"

\* The fields that patterns of their own look for; the others come from pairs
\* of label and value alone.
Parsed == {"tax_id", "legal_name", "tax_regime", "postal_code", "curp", "cif_id", "qr_url"}
Critical == {"tax_id", "legal_name"}

\* Postal code and idCIF are looked for among the pairs once more.
FromPairs == {"postal_code", "cif_id"}

Main == Fields \cap Parsed

ASSUME FieldsAssumption ==
    /\ {Empty, Null} \cap Values = {}
    /\ {Unread, Unnamed, "None"} \subseteq Values
    /\ Valid \in [Fields -> SUBSET Values]
    /\ {GroqParser, GroqFixes, OpenAi} \subseteq BOOLEAN
    /\ Confident \in [{"openai", "groq"} -> Nat]

Texts == Values \cup {Empty}

Or(a, b) == IF a # Empty THEN a ELSE b

Default(f) == CASE f = "tax_id" -> Unread [] f = "legal_name" -> Unnamed [] OTHER -> Empty

\* Unread may also stand in the text itself; Groq is asked, but the value stays.
NeedsGroq(read) ==
    /\ GroqParser
    /\ \E f \in Main \cap Critical :
          read[f] = Empty \/ (f = "tax_id" /\ read[f] = Unread)

\* Mutation: a value that nobody found stays empty.
ParsedFields_NoDefault(read, reply) == [f \in Main |-> Or(read[f], reply[f])]

\* _parse_csf_fields: what the patterns have not found is taken from Groq.
ParsedFields(read, reply) == [f \in Main |-> Or(Or(read[f], reply[f]), Default(f))]

\* _build_crm_autofill with include_empty
Crm(parsed, pairs) ==
    [f \in Fields |->
        CASE f \in Main \ FromPairs -> parsed[f]
          [] f \in Main \cap FromPairs -> Or(parsed[f], pairs[f])
          [] OTHER -> pairs[f]]

---------------------------------------------------------------------------
(* A suggestion names a field, which may be any text, the value it thinks  *)
(* the field has, another one, and how sure the service is.  A reply is a  *)
(* list of them; what is left of it is given by the places in the list.    *)

AiReply == [field : STRING, current : Texts, value : Texts \cup {Null}, needs : BOOLEAN,
            confidence : Nat]

Suggestion(s) == s.field # Empty /\ s.value \notin {Null, Empty}

\* _suggest_field_corrections_via_openai
OpenAiOutput(reply) ==
    [i \in {k \in DOMAIN reply : /\ Suggestion(reply[k])
                                /\ reply[k].needs
                                /\ reply[k].value # reply[k].current} |-> reply[i]]

\* _suggest_field_corrections_via_groq: all that came, and a value that is null
\* becomes the text None.
GroqOutput(reply) ==
    [i \in DOMAIN reply |->
        [reply[i] EXCEPT !.value = IF @ = Null THEN "None" ELSE @]]

NoAdvice == <<>>
OpenAiHelps(reply) == OpenAi /\ DOMAIN OpenAiOutput(reply) # {}

\* _suggest_field_corrections; a call that fails has the reply <<>>.
Suggestions(openaiReply, groqReply) ==
    CASE OpenAiHelps(openaiReply) -> OpenAiOutput(openaiReply)
      [] ~OpenAiHelps(openaiReply) /\ GroqFixes -> GroqOutput(groqReply)
      [] OTHER -> NoAdvice

\* One threshold for both services, the one of OpenAI when it is enabled.
Threshold == IF OpenAi THEN Confident["openai"] ELSE Confident["groq"]

\* The places of the suggestions for f, and of those that are adopted.
About(f, suggested) == {i \in DOMAIN suggested : suggested[i].field = f}

Adopted(f, suggested) ==
    {i \in About(f, suggested) :
        Suggestion(suggested[i]) /\ suggested[i].confidence >= Threshold}

\* _build_corrected_json: the last of several wins.
Corrected(crm, suggested) ==
    [f \in Fields |->
        IF Adopted(f, suggested) = {} THEN crm[f]
        ELSE suggested[Max(Adopted(f, suggested))].value]

\* Mutation: a field whose value has the right format is right.
IsOk_FormatOnly(f, value, suggested) == value \in Valid[f]

IsOk(f, value, suggested) == value \in Valid[f] /\ About(f, suggested) = {}

\* _build_field_validation_report
Report(crm, suggested) ==
    [f \in Fields |->
        [ok |-> IsOk(f, crm[f], suggested),
         reason |-> CASE crm[f] = Empty -> "faltante"
                      [] crm[f] \in Values \ Valid[f] -> "formato_invalido"
                      [] crm[f] \in Valid[f] /\ About(f, suggested) # {} ->
                            "requiere_correccion"
                      [] OTHER -> "ok",
         suggested |-> IF About(f, suggested) = {} THEN Empty
                       ELSE suggested[Max(About(f, suggested))].value]]
==============================================================================
