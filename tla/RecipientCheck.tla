---------------------------- MODULE RecipientCheck ----------------------------
(***************************************************************************)
(* api/routers/receptor_validate.py: the checks of the fiscal data of a    *)
(* recipient against the catalogues of CFDI 4.0.  A field is None when it  *)
(* is blank, and Absent when an optional one is not sent.                  *)
(***************************************************************************)
EXTENDS PacClient

CONSTANTS
    Moral, Fisica,   \* the RFCs with the format of a company and of a person
    ZipCodes         \* the postal codes of five digits from 01000 on

Absent == "absent"
GenericRfcs == {"XAXX010101000", "XEXX010101000"}

\* _REGIMENES
RegimenesBoth == {"610", "622", "626"}
RegimenesMoral == {"601", "603", "620", "623", "624"} \cup RegimenesBoth
RegimenesFisica == {"605", "606", "607", "608", "611", "612", "614", "615", "616",
                    "621", "625"} \cup RegimenesBoth
Regimenes == RegimenesMoral \cup RegimenesFisica

\* _USOS_CFDI: those for everybody, and those for persons of some regimes.
UsosBoth == {"G01", "G02", "G03", "I01", "I02", "I03", "I04", "I05", "I06", "I07",
             "I08", "S01", "CP01"}
Deductions == {"D01", "D02", "D03", "D04", "D05", "D06", "D07", "D08", "D09", "D10"}
Usos == UsosBoth \cup Deductions \cup {"CN01"}

RegimenesOf(uso) ==
    CASE uso \in UsosBoth -> Regimenes
      [] uso \in Deductions -> {"605", "606", "608", "611", "612", "614", "616",
                                "621", "625", "626"}
      [] uso = "CN01" -> {"605"}

\* _validate_rfc
Tipo(rfc) ==
    CASE rfc \in GenericRfcs \cup Fisica -> "fisica"
      [] rfc \in Moral \ (GenericRfcs \cup Fisica) -> "moral"
      [] OTHER -> None

ValidCp(cp) == cp \in ZipCodes

\* _validate_regimen: without a kind of person only the code is looked up.
ValidRegimen(regimen, tipo) ==
    CASE tipo = "fisica" -> regimen \in RegimenesFisica
      [] tipo = "moral" -> regimen \in RegimenesMoral
      [] OTHER -> regimen \in Regimenes

\* _validate_uso_cfdi: regimen is None when it was found invalid.
ValidUso(uso, tipo, regimen) ==
    /\ uso \in Usos
    /\ tipo = "moral" => uso \in UsosBoth
    /\ regimen # None => regimen \in RegimenesOf(uso)

\* The verdict on each field of a request, before the PAC is asked.
FieldsOf(req) ==
    LET tipo  == Tipo(req.rfc)
        regOk == ValidRegimen(req.regimen, tipo)
    IN  [rfc     |-> tipo # None,
         nombre  |-> req.nombre # None,
         cp      |-> ValidCp(req.cp),
         regimen |-> regOk,
         uso     |-> \/ req.uso = Absent
                     \/ ValidUso(req.uso, tipo, IF regOk THEN req.regimen ELSE None)]

AllValid(fields) == fields.rfc /\ fields.nombre /\ fields.cp /\ fields.regimen /\ fields.uso

\* The PAC is asked about data whose RFC, postal code and regime are valid.
ProbeAllowed(fields) == fields.rfc /\ fields.cp /\ fields.regimen

\* valid of validate_receptor; active is Absent when the PAC was not asked.
Verdict(req, active) == AllValid(FieldsOf(req)) /\ active # "false"
===============================================================================
