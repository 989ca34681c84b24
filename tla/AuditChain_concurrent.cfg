SPECIFICATION Spec
CONSTANTS
    k1 = k1  k2 = k2  k3 = k3  k4 = k4  k5 = k5  a = a  b = b
    Calls = {k1, k2, k3, k4, k5}
    Companies = {a, b}
    CompanyOf <- MCCompanyOf
    Contents = {"x", "y"}
    ContentOf <- MCContentOf
INVARIANTS LinksToParent VerifyFindsForks
PROPERTIES ForksFromOvertaking
CHECK_DEADLOCK FALSE
