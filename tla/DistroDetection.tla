--------------------------- MODULE DistroDetection ---------------------------
(***************************************************************************)
(* Which family of distributions a host belongs to (sysknife-core          *)
(* distro.rs): the parse of /etc/os-release, its classification, and the   *)
(* hint the CLI makes of it (runner.rs).  Every caller turns an error into *)
(* "no distribution" (detect().ok()), so one error stands for all of them. *)
(*                                                                         *)
(* A line is a pair [form, key, value]; `form` says what is wrong with it, *)
(* if anything.  A version is the sequence of its dot-separated parts, and *)
(* a part that is no number is NotANumber.                                 *)
(***************************************************************************)
EXTENDS Sequences, Integers

NotANumber == -1

\* Forms of a line.  The last four are InvalidLine, MismatchedQuotes and
\* InvalidByte; the parser knows no escape and no continuation.
Forms == {"pair", "comment", "malformed", "unclosed", "control"}

IdsWithFedora == {"fedora", "fedora-asahi-remix"}

-----------------------------------------------------------------------------
(* parse_os_release.                                                       *)

Pairs(file) == SelectSeq(file.lines, LAMBDA line : line.form = "pair")

Mentions(file, key) == \E i \in DOMAIN Pairs(file) : Pairs(file)[i].key = key

\* The last line of a key wins.
Says(file, key) ==
    LET at == {i \in DOMAIN Pairs(file) : Pairs(file)[i].key = key}
    IN Pairs(file)[CHOOSE i \in at : \A j \in at : j <= i].value

\* One bad line spoils the file, wherever it stands; so does a missing ID.
Parses(file) ==
    /\ ~file.too_large
    /\ \A i \in DOMAIN file.lines : file.lines[i].form \in {"pair", "comment"}
    /\ Mentions(file, "ID")

-----------------------------------------------------------------------------
(* detect_distro.                                                          *)

Variant(file) == IF Mentions(file, "VARIANT_ID") THEN Says(file, "VARIANT_ID") ELSE "none"
Version(file) == IF Mentions(file, "VERSION_ID") THEN Says(file, "VERSION_ID") ELSE << >>

Other == [distro |-> "Other", version |-> << >>]

IsNumber(version) == Len(version) = 1 /\ version[1] # NotANumber

\* splitn(2, '.'): a third part makes the second no number.
IsPair(version) == Len(version) = 2 /\ NotANumber \notin {version[1], version[2]}

detect_fedora(file) ==
    IF ~IsNumber(Version(file)) THEN Other
    ELSE [distro |-> IF Variant(file) \in {"silverblue", "kinoite", "sericea"}
                     THEN "FedoraSilverblue" ELSE "Fedora",
          version |-> Version(file)]

detect_ubuntu(file) ==
    IF ~IsPair(Version(file)) THEN Other
    ELSE [distro |-> IF Variant(file) = "core" THEN "UbuntuCore" ELSE "Ubuntu",
          version |-> Version(file)]

detect_debian(file) ==
    [distro |-> "Debian", version |-> IF IsNumber(Version(file)) THEN Version(file) ELSE << >>]

detect_distro(file) ==
    IF Says(file, "ID") = "fedora" THEN detect_fedora(file)
    ELSE IF Says(file, "ID") = "ubuntu" THEN detect_ubuntu(file)
    ELSE IF Says(file, "ID") = "debian" THEN detect_debian(file)
    ELSE Other

\* DistroId::family, as distro_id_to_hint passes it on; "none" is detect()'s
\* error.  ID_LIKE is parsed and asked by nobody.
Family(file) ==
    IF ~file.readable \/ ~Parses(file) THEN "none"
    ELSE IF detect_distro(file).distro \in {"Fedora", "FedoraSilverblue"} THEN "fedora"
    ELSE IF detect_distro(file).distro \in {"Ubuntu", "UbuntuCore", "Debian"} THEN "debian"
    ELSE IF Says(file, "ID") \in IdsWithFedora THEN "fedora" ELSE "other"
=============================================================================
