----------------------------- MODULE PathAlgebra -----------------------------
(***************************************************************************)
(* Pure paths of the remote backends (CommonPurePathMixin of               *)
(* src/src/asanypath/common.py): how a string is parsed below a configured *)
(* base URL, how paths are derived from one another by re-parsing their    *)
(* text, and which derived paths keep the options, credentials among them, *)
(* that were given for the first.                                          *)
(*                                                                         *)
(* The text of a URL is the sequence of its names, the authority first;    *)
(* <<>> is the bare scheme ("art://").  Names are taken without query,     *)
(* fragment or escapes, and ".." is resolved by the URL library, which is  *)
(* external.  The base URLs are read from the environment once per         *)
(* process (_get_base_url_prefixes), so they are a constant of a behaviour.*)
(***************************************************************************)
EXTENDS Integers, Sequences

CONSTANTS PaUsers,      \* what the user has set and does: [bases, ops]
          PaQualified,  \* the authorities that look like a host: with a dot or a port
          PaNames,      \* the names users join
          PaDepth       \* bound on the names of a path

ASSUME PaAssumption == PaDepth \in Nat /\ \A user \in PaUsers : user.ops \subseteq {"up", "parent"}

VARIABLES paUser,   \* a member of PaUsers
          paBound,  \* _options_bound_to_authority of the backend
          paPath,   \* the current path
          paGiven,  \* options were given for the first path
          paHome,   \* the authority they were given for
          paHas,    \* the current path has them
          paStayed  \* every path so far had that authority

paVars == <<paUser, paBound, paPath, paGiven, paHome, paHas, paStayed>>

PaBases == paUser.bases
PaAuthority(path) == IF path = <<>> THEN <<>> ELSE <<Head(path)>>

PaIsPrefix(p, q) == Len(p) <= Len(q) /\ SubSeq(q, 1, Len(p)) = p

\* The URL library drops ".." with the name before it, and never the authority.
PaUp(text) ==
    LET up[n \in 0..Len(text)] ==
            IF n = 0 THEN <<>>
            ELSE IF text[n] # ".." THEN Append(up[n - 1], text[n])
            ELSE SubSeq(up[n - 1], 1, IF Len(up[n - 1]) > 1 THEN Len(up[n - 1]) - 1 ELSE Len(up[n - 1]))
    IN  up[Len(text)]

\* _under_prefix: a base URL or below one.
PaUnderPrefix(text) == \E i \in DOMAIN PaBases : PaIsPrefix(PaBases[i], text)

\* _expand_protocol_base_url: the bare scheme is the first base URL, and a first name
\* that does not look like a host is a name below it.
PaExpand(text) ==
    IF \/ PaBases = <<>>
       \/ text # <<>> /\ (PaUnderPrefix(text) \/ Head(text) \in PaQualified)
    THEN text ELSE PaBases[1] \o text

\* __init__ with a text and further parts: only the text is expanded.
PaParse(text, parts) == PaUp(PaExpand(text) \o parts)

\* _keeps_authority of the text and parts a path is derived from: they begin
\* with the scheme and this authority, or with this path's own text when its
\* authority cannot be taken for a name.
PaKeepsAnyDrive(path, text, parts) ==
    \/ text = <<>> /\ parts # <<>>
    \/ text = path /\ Head(path) \in PaQualified
PaKeepsAuthority(path, text, parts) ==
    \/ text = <<>> /\ PaAuthority(parts) = PaAuthority(path)
    \/ text = path /\ Head(path) \in PaQualified

\* _derive: options bound to the authority go with it.
PaDerive(text, parts) ==
    LET path == PaParse(text, parts)
    IN  /\ Len(path) <= PaDepth
        /\ paPath' = path
        /\ paHas' = (/\ paHas
                     /\ \/ ~paBound \/ PaKeepsAuthority(paPath, text, parts)
                        \/ PaAuthority(path) = PaAuthority(paPath))
        /\ paStayed' = (paStayed /\ PaAuthority(path) = paHome)
        /\ UNCHANGED <<paUser, paBound, paGiven, paHome>>

\* _parent: the scheme and the parts of the path without the last one.
PaRemaining(path) == SubSeq(path, 1, Len(path) - 1)

\* How many names two paths begin with in common.
PaCommon(p, q) == CHOOSE n \in 0..Len(p) :
                    /\ n <= Len(q) /\ SubSeq(p, 1, n) = SubSeq(q, 1, n)
                    /\ n < Len(p) /\ n < Len(q) => p[n + 1] # q[n + 1]

\* _relative_part: whether `path` is relative to `other`, and the names that
\* lead from the one to the other.
PaIsRelative(path, other, walk_up) ==
    /\ PaAuthority(path) = PaAuthority(other)
    /\ walk_up \/ PaCommon(path, other) = Len(other)
PaUpTheirs(path, other) == [i \in 1..Len(other) - PaCommon(path, other) |-> ".."]
PaRelativeTo(path, other) ==
    PaUpTheirs(path, other) \o SubSeq(path, PaCommon(path, other) + 1, Len(path))

\* What a user may write: a host with a path below it, a bare first name, or a
\* path below a base URL.
PaTexts == {<<host>> : host \in PaQualified}
           \cup {<<host>> \o <<"artifactory", "repo">> : host \in PaQualified}
           \cup {<<"repo">>, <<"repo", "x">>}
           \cup {PaBases[i] \o <<"repo">> : i \in DOMAIN PaBases}

PaInit ==
    /\ paUser \in PaUsers
    /\ paBound \in BOOLEAN /\ paGiven \in BOOLEAN
    /\ \E text \in PaTexts : paPath = PaParse(text, <<>>)
    /\ Len(paPath) <= PaDepth
    /\ paHome = PaAuthority(paPath) /\ paHas = paGiven /\ paStayed = TRUE

\* path / name, and joinpath.
PaJoin == \E name \in PaNames :
    /\ name = ".." => "up" \in paUser.ops
    /\ PaDerive(paPath, <<name>>)

\* parent, which parents, with_name, with_stem and with_suffix begin with.
PaParent ==
    /\ "parent" \in paUser.ops /\ Len(paPath) > 1
    /\ PaDerive(<<>>, PaRemaining(paPath))

\* with_segments with one text, or with the parts of a path, the scheme first.
PaWithSegments == \E text \in PaTexts :
    \/ PaDerive(text, <<>>)
    \/ "parent" \in paUser.ops /\ PaDerive(<<>>, text)

PaNext == PaJoin \/ PaParent \/ PaWithSegments

PaSpec == PaInit /\ [][PaNext]_paVars

\* Every name is a string, these among them.
PaWords == STRING \cup PaQualified \cup PaNames \cup {"..", "artifactory", "repo", "x", "y"}

PaTypeOK ==
    /\ paUser \in PaUsers
    /\ paPath \in Seq(PaWords) /\ Len(paPath) \in 1..PaDepth /\ Len(paHome) = 1
    /\ {paBound, paGiven, paHas, paStayed} \subseteq BOOLEAN

\* Options given for one path reach exactly the paths that may have them: with a
\* backend that binds them to the authority, those derived without leaving it,
\* and with the others all (_derive and the shortcut of _keeps_authority, which
\* spares parsing the path a second time).
PaOptionsFollow == paHas = (paGiven /\ (paBound => paStayed))

\* Deriving a path parses the text of the one it begins with again, so that text
\* must mean the same path although a base URL may be put in front of it
\* (_expand_protocol_base_url).
PaCanonical == PaParse(paPath, <<>>) = paPath

\* The paths above this one, and others below these.
PaOthers == {PaParse(SubSeq(paPath, 1, n), <<>>) : n \in 1..Len(paPath)}
            \cup {PaParse(SubSeq(paPath, 1, n) \o <<"y", "x">>, <<>>) : n \in 1..Len(paPath)}

\* Joining what relative_to gives, with or without walk_up, to the path it is
\* relative to leads back to the path (_relative_part and __truediv__).
PaJoinsBack == \A other \in PaOthers :
    PaIsRelative(paPath, other, TRUE) => PaParse(other, PaRelativeTo(paPath, other)) = paPath

\* A path lies directly below its parent, under its name (_parent and
\* _relative_part; tests/test_commonpathmixin.py test_relative_to).
PaAbove(path, parent) ==
    PaIsRelative(path, parent, FALSE) /\ PaRelativeTo(path, parent) = <<path[Len(path)]>>
PaParentAbove == [][PaParent => PaAbove(paPath, paPath')]_paVars

\* Deriving paths by parsing their text again agrees with deriving their names:
\* the path itself, the way back from the paths around it, and its parent.
PaDerives ==
    /\ PaOptionsFollow /\ PaCanonical /\ PaJoinsBack
    /\ "parent" \in paUser.ops /\ Len(paPath) > 1 =>
           PaAbove(paPath, PaParse(<<>>, PaRemaining(paPath)))
==============================================================================
