-------------------------- MODULE MCHostSession --------------------------
(***************************************************************************)
(* The configurations a session meets: no override, one that restates a    *)
(* level, one that raises a read-only action, one that raises a change,    *)
(* and one of each kind from_overrides refuses (an unknown name, a bad     *)
(* level, a lowering).  The hosts: one of each family, one that follows a  *)
(* family without saying so, one whose file nothing can be made of.        *)
(***************************************************************************)
EXTENDS HostSession

MCRawOverrides ==
    {[a \in {} |-> Low],
     [AptUpdate |-> Low, GetServiceLogs |-> Low],
     [AptUpdate |-> Medium, GetServiceLogs |-> High],
     [AptInstall |-> High, StartService |-> Medium],
     [Nonsense |-> High],
     [AptInstall |-> InvalidLevel],
     [AptAutoremove |-> Low, AptUpdate |-> High]}

Line(key, value) == [form |-> "pair", key |-> key, value |-> value]
Comment == [form |-> "comment", key |-> "none", value |-> "none"]
Unclosed == [form |-> "unclosed", key |-> "PRETTY_NAME", value |-> "none"]
File(lines) == [readable |-> TRUE, too_large |-> FALSE, lines |-> lines]

MCOsReleases ==
    {File(<<Comment, Line("ID", "ubuntu"), Line("VERSION_ID", <<24, 4>>)>>),
     File(<<Line("ID", "debian"), Line("ID", "fedora"), Line("VERSION_ID", <<41>>),
            Line("VARIANT_ID", "silverblue")>>),
     File(<<Line("ID", "fedora-asahi-remix"), Line("VERSION_ID", <<41>>)>>),
     File(<<Line("ID", "linuxmint"), Line("ID_LIKE", "ubuntu debian")>>),
     File(<<Line("ID", "ubuntu"), Line("VERSION_ID", <<24, 4, 1>>)>>),
     File(<<Line("ID", "debian"), Unclosed>>)}
=============================================================================
