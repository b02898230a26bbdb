------------------------------ MODULE ImportRows ------------------------------
(***************************************************************************)
(* How ImportEngineService reads one row of a file: the target that each   *)
(* column is mapped to, and the keys by which a contact of the row would   *)
(* be recognised under a mapping.  A cell is a text, "" when it is blank;  *)
(* a header is the target among whose aliases it is found, or "other".  A  *)
(* mapping gives each column of the header a target.  Pure operators, no   *)
(* state.                                                                  *)
(***************************************************************************)
EXTENDS Naturals, Sequences

CONSTANTS
    Number,         \* of a text of 9 to 15 digits, the phone number it spells
    Addresses       \* the texts that are shaped like an e-mail address

importTargets ==
    {"displayName", "phone", "platformUserId", "username", "email", "gender", "source",
     "consentStatus"}

(* The first column of each alias gets the target, the others none.        *)
autoMapping(header) ==
    [i \in DOMAIN header |->
        IF header[i] \in importTargets /\ \A j \in 1..(i - 1) : header[j] # header[i]
          THEN header[i] ELSE "IGNORE"]

(* What updateMapping asks of a mapping over these columns.                *)
MayMap(header, mapping) ==
    LET targets == {mapping[i] : i \in DOMAIN mapping}
    IN  /\ DOMAIN mapping \subseteq DOMAIN header
        /\ targets \subseteq importTargets \cup {"IGNORE"}
        /\ "displayName" \in targets
        /\ {"phone", "platformUserId"} \cap targets # {}

(* Of several columns with the same target the last one counts.            *)
CellFor(target, cells, mapping) ==
    LET columns == {i \in DOMAIN mapping : mapping[i] = target}
    IN  IF columns = {} THEN ""
        ELSE cells[CHOOSE i \in columns : \A j \in columns : j <= i]

(* A phone number that is given and malformed is an error; spellings of    *)
(* one number are normalised to the same key.                              *)
Malformed(phone) == phone \notin {""} \cup DOMAIN Number
normalizePhone(phone) == {<<"phone", Number[p]>> : p \in {phone} \ {""}}

(* The keys of a row, none if it cannot be normalised: it needs a name and *)
(* a phone number or a Zalo id, and a wrong phone number spoils a row that *)
(* has a Zalo id, too.  Only what the mapped cells hold becomes a key.     *)
normalizeRow(cells, mapping) ==
    LET phone == CellFor("phone", cells, mapping)
        email == CellFor("email", cells, mapping)
        id == CellFor("platformUserId", cells, mapping)
    IN  IF CellFor("displayName", cells, mapping) = "" \/ Malformed(phone)
           \/ email \notin {""} \cup Addresses
          THEN {}
          ELSE normalizePhone(phone) \cup {<<"zalo", i>> : i \in {id} \ {""}}

=============================================================================
