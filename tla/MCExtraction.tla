----------------------------- MODULE MCExtraction -----------------------------
(* Instances of Extraction for TLC: full has all its fields, torn lacks the   *)
(* RFC and has its QR code on a page only, other is no constancia.            *)
EXTENDS Extraction, TLC

CONSTANTS t1, t2

MCFields == {"tax_id", "postal_code", "municipality", "state", "locality", "qr_url"}
Found(rfc, qr) == "tax_id" :> rfc @@ "postal_code" :> Empty @@ "qr_url" :> qr
MCPairs == [f \in Fields |->
    CASE f = "municipality" -> "juarez" [] f = "state" -> "chihuahua"
      [] f = "postal_code" -> "32690" [] OTHER -> Empty]
MCPdf == "full" :> [csf |-> TRUE, read |-> Found("rfc", "qr1"), pairs |-> MCPairs, image |-> Empty]
      @@ "torn" :> [csf |-> TRUE, read |-> Found(Empty, Empty), image |-> "qr1",
                    pairs |-> [MCPairs EXCEPT !["state"] = Empty]]
      @@ "other" :> [csf |-> FALSE, read |-> Found(Empty, Empty), pairs |-> MCPairs, image |-> Empty]
MCGroqReads == {Found("rfc", Empty)}
MCValid == [f \in Fields |->
    CASE f = "tax_id" -> {"rfc"} [] f = "postal_code" -> {"32690"}
      [] f = "qr_url" -> QrTexts [] OTHER -> Values]

Says(f, v, c) == [field |-> f, current |-> Empty, value |-> v, needs |-> TRUE, confidence |-> c]
MCAiReplies == {<<Says("tax_id", Null, 90)>>,
                <<Says("qr_url", "qr2", 90), Says("qr_url", "qr1", 75)>>}

MCAddresses == {[municipality |-> "juarez", state |-> "chihuahua", locality |-> Empty]}
MCStates == <<[name |-> "chihuahua", code |-> "08"]>>
MCMunicipalities == "08" :> <<[name |-> "ciudad juarez", code |-> "08037"]>>
MCLocalities == "08037" :> <<[name |-> "anapra", code |-> "0002", place |-> "p2"],
                             [name |-> "ciudad juarez", code |-> "0001", place |-> "p1"]>>
MCAlike == {<<"juarez", "ciudad juarez">>}

MCConfident == "openai" :> 85 @@ "groq" :> 70
Symmetric == Permutations({t1, t2})
===============================================================================
