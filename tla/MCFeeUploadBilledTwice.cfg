CONSTANTS
    Uploads = {u1, u2}
    CodeSpellings = {"Main", "main"}
    JwtSpelling = "Main"
    Admissions = {a1, a2}
    Terms = {k1, k2}
    Emails = {e1}
    EmailOf <- OneFamily
    MaxRows = 2
SPECIFICATION SpecFeeUpload
CHECK_DEADLOCK FALSE
INVARIANT
    EachTermBilledOnce
