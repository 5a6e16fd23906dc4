---------------------------- MODULE MCComponents ----------------------------
(* Instances for TLC of components that do not meet.  Each behaviour is of  *)
(* one of them, chosen at the start; the others stay as they begin.         *)
EXTENDS ExternalTracking, EmailOtp, AccountAdmin, TLC

CONSTANTS A, B, x, y, ana, ben, sam, p, q, b1, b2,
          root, dean, clerk

VARIABLE setting

MCStaffOffice == [u \in Staff |-> CASE u = ana -> A [] u = ben -> B [] OTHER -> NoParty]
MCStaffRole ==
    [u \in Staff |-> CASE u = ana -> "ADMIN" [] u = ben -> "USER" [] OTHER -> "SYSTEM_ADMIN"]

\* "times": one administrator, one outside office and a longer clock.
\* "pages": three people with pages of one case, and endpoints to correct.
ExternalBounds ==
    /\ Cardinality(work) <= 1
    /\ setting = "times" =>
        /\ now <= 3 \/ Len(turns) <= 1
        /\ matching \subseteq {ana}
        /\ {xsteps[i].to : i \in 1..Len(xsteps)} \cup {xcase.custodian} \subseteq {A, x, NoParty}
    /\ setting = "pages" => now <= 2 /\ Len(turns) <= 1 /\ Len(xsteps) <= 2

\* "mail": one address, codes that come late; a second browser signs in
\* beside the first before anything is reset.
\* "addresses": one browser, and everything that changes the account.
OtpBounds ==
    /\ setting = "mail" =>
        /\ Len(challenges) <= 2 /\ account.password = 1 /\ account.active
        /\ {account.email} \cup {challenges[c].dest : c \in DOMAIN challenges} = {p}
        /\ \/ session[b2] = EmptySession /\ typed[b2] = 0
           \/ era = 0
        /\ (\E c \in DOMAIN challenges : challenges[c].gen > 1) => Len(challenges) = 1
    /\ setting = "addresses" =>
        /\ session[b2] = EmptySession /\ typed[b2] = 0
        /\ era <= 1 /\ misses = 0
        /\ era = 0 \/ Len(challenges) <= 2
        /\ \A c \in DOMAIN challenges : challenges[c].gen = 1 /\ challenges[c].clock # "lapsed"
        /\ Cardinality(outbox) <= 1
        /\ account.password = 1 \/ account.active

MCRole == [u \in People |-> IF u = clerk THEN "ADMIN" ELSE "SYSTEM_ADMIN"]
MCOffice == [u \in People |-> A]

\* "staffing": two system administrators and what they do to the accounts.
\* "policies": one account restricted, suspended and edited while it writes.
AdminBounds ==
    /\ setting = "staffing" =>
        /\ form = [u \in People |-> NoForm] /\ clerk \notin arrived
        /\ \A u \in People : person[u].role \in {"SYSTEM_ADMIN", "ADMIN"} /\ txn[u].kind # "work"
    /\ setting = "policies" =>
        /\ \A u \in People : txn[u] # Idle =>
              txn[u].kind \in {"restrict", "work", "toggle", "save"} /\ txn[u].target = clerk
        /\ \A u \in People : txn[u].kind = "save" => txn[u].active
        /\ \A u \in People : form[u].target \in {Nobody, clerk}

ComponentsInit ==
    /\ ExtInit /\ OtpInit /\ AdminInit
    /\ setting \in {"times", "pages", "mail", "addresses", "staffing", "policies"}

ComponentsNext ==
    /\ UNCHANGED setting
    /\ \/ /\ setting \in {"times", "pages"}
          /\ ExtNext /\ ExternalBounds'
          /\ UNCHANGED <<otpVars, adminVars>>
       \/ /\ setting \in {"mail", "addresses"}
          /\ OtpNext /\ OtpBounds'
          /\ UNCHANGED <<extVars, adminVars>>
       \/ /\ setting \in {"staffing", "policies"}
          /\ AdminNext /\ AdminBounds'
          /\ UNCHANGED <<extVars, otpVars>>

ComponentsSpec == ComponentsInit /\ [][ComponentsNext]_<<extVars, otpVars, adminVars, setting>>
=============================================================================
