--------------------------- MODULE MCBillingDrafts ---------------------------
(* Instances of BillingDrafts for TLC.                                     *)
EXTENDS BillingDrafts, TLC

CONSTANTS s1, s2

Item(product, cents, qty, pct) ==
    [product |-> product, price |-> cents, quantity |-> qty, rate |-> pct, taxed |-> TRUE]

\* At 16 % the taxes of 3 and of 10 cents are no whole cents.
MCItems == {Item("p1", NoPrice, 1, 16)}
Public == [rfc |-> "XAXX010101000", regimen |-> "regimen general"]
MCPublic == {Public}
MCCustomers == {Public, [rfc |-> "moral1", regimen |-> "regimen general"]}
MCTextCode == "regimen general" :> "601"

Req(rfc, regimen) ==
    [rfc |-> rfc, nombre |-> "n", cp |-> "32690", regimen |-> regimen, uso |-> "G03"]
MCRequests == {Req("moral1", "601")}

Rest(ok, body) == [via |-> "rest", ok |-> ok, json |-> TRUE, body |-> body]
Soap(values) == [via |-> "soap", values |-> values]

Sealed == [reply |-> Soap(<<"0", "xml">>), issued |-> TRUE]
Refused == [reply |-> Rest(TRUE, [NoBody EXCEPT !.codigo = "301"]), issued |-> FALSE]
\* The invoice is sealed, and the answer is an error of a gateway.
Gateway == [reply |-> Rest(FALSE, [NoBody EXCEPT !.codigo = "500"]), issued |-> TRUE]

\* A page of a proxy, with the status of a success, in place of an answer.
Page == [reply |-> [Rest(TRUE, NoBody) EXCEPT !.json = FALSE], issued |-> FALSE]
\* A list of errors without a code of its own, with the status of a success.
Listed == [reply |-> Rest(TRUE, [NoBody EXCEPT !.errores = <<"CFDI40132">>]), issued |-> FALSE]

MCReplies == {Sealed, Listed, Page, Gateway}
PlainReplies == {Sealed, Refused}

Sandbox == [env |-> "sandbox", sandboxUrl |-> "pruebas", sandboxToken |-> "t",
            productionUrl |-> None, productionToken |-> None, legacyUrl |-> "pruebas",
            legacyToken |-> None, soap |-> FALSE, soapUrl |-> "produccion",
            demoEnabled |-> TRUE]

Symmetric == Permutations({s1, s2})
==============================================================================
