----------------------------- MODULE SystemDetector -----------------------------
(***************************************************************************)
(* What SystemDetector (src/core/system_detector.cpp) makes of             *)
(* /etc/os-release and /proc/self/mountinfo, as functions of their text.   *)
(*                                                                         *)
(* A text is a sequence of characters; a run of letters whose spelling     *)
(* does not matter ("ID", "arch", "ext4") is a single character here, in   *)
(* lower case where the code converts to it.  The XDG paths are in         *)
(* RuleCatalog.                                                            *)
(***************************************************************************)
EXTENDS Naturals, SequencesExt

Blanks == {" ", "\t", "\r", "\n"}

Trim(text) ==
  LET solid == {i \in DOMAIN text : text[i] \notin Blanks}
  IN  IF solid = {} THEN <<>> ELSE SubSeq(text, Min(solid), Max(solid))

\* The maximal runs without a separator.
Runs(text, separators) ==
  LET Split(runs, c) == IF c \in separators THEN Append(runs, <<>>)
                        ELSE Append(Front(runs), Append(Last(runs), c))
  IN  SelectSeq(FoldLeft(Split, << <<>> >>, text), LAMBDA run : run # <<>>)

-----------------------------------------------------------------------------
(* /etc/os-release *)

\* Faulty: only the quote itself can be escaped.
EscapesQuote(c, quote) == c = quote

Escapes(c, quote) == c \in {quote, "\\", "$", "backquote"}

\* Outside double quotes a backslash is a character like any other.
Unquote(raw) ==
  LET value == Trim(raw)
      quote == Head(value)
      Read(s, c) ==
        IF s.escaped
        THEN [text |-> s.text \o (IF Escapes(c, quote) THEN <<c>> ELSE <<"\\", c>>),
              escaped |-> FALSE]
        ELSE IF c = "\\" /\ quote = "\"" THEN [s EXCEPT !.escaped = TRUE]
        ELSE [s EXCEPT !.text = Append(@, c)]
      read == FoldLeft(Read, [text |-> <<>>, escaped |-> FALSE], Tail(Front(value)))
  IN  IF Len(value) < 2 \/ quote \notin {"\"", "'"} \/ Last(value) # quote THEN value
      ELSE IF read.escaped THEN Append(read.text, "\\") ELSE read.text

Keys == {"ID", "ID_LIKE", "NAME"}

\* The last assignment of a key counts; comments and lines that are no
\* assignment are passed over.
ParseOsRelease(lines) ==
  LET Assign(values, raw) ==
        LET line == Trim(raw)
            equals == SelectInSeq(line, LAMBDA c : c = "=")
            key == Trim(SubSeq(line, 1, equals - 1))
        IN  IF line = <<>> \/ Head(line) = "#" \/ equals \in {0, 1} \/ ~ToSet(key) \subseteq Keys
            THEN values
            ELSE (key :> Unquote(SubSeq(line, equals + 1, Len(line)))) @@ values
  IN  FoldLeft(Assign, <<>>, lines)

ValueOr(values, key, fallback) ==
  IF key \in DOMAIN values /\ values[key] # <<>> THEN values[key] ELSE fallback

Families == <<
  [name |-> "arch", words |-> {"arch", "manjaro", "cachyos", "endeavouros", "garuda"}],
  [name |-> "debian", words |-> {"debian", "ubuntu", "linuxmint", "pop", "kali", "neon"}],
  [name |-> "fedora", words |-> {"fedora", "rhel", "centos", "rocky", "almalinux"}],
  [name |-> "opensuse", words |-> {"suse", "opensuse", "sles"}],
  [name |-> "alpine", words |-> {"alpine"}],
  [name |-> "nix", words |-> {"nixos", "nix"}] >>

\* The first family one of whose words is the identifier or in the list of
\* those the distribution is like.
Classify(id, idLike) ==
  LET identifiers == {id} \cup ToSet(Runs(idLike, Blanks))
      first == SelectInSeq(Families, LAMBDA f : \E w \in f.words : <<w>> \in identifiers)
  IN  IF first = 0 THEN "unknown" ELSE Families[first].name

-----------------------------------------------------------------------------
(* /proc/self/mountinfo *)

Digits == <<"0", "1", "2", "3", "4", "5", "6", "7", "8", "9">>
Digit(c) == SelectInSeq(Digits, LAMBDA d : d = c) - 1

\* The characters the kernel writes as an octal number.
Octal == (32 :> " ") @@ (9 :> "\t") @@ (10 :> "\n") @@ (92 :> "\\")

IsOctal(field, i) ==
  /\ field[i] = "\\" /\ i + 3 <= Len(field)
  /\ \A k \in 1..3 : field[i + k] \in ToSet(Digits)

\* The number is cut to one byte; bytes the kernel does not write are "?".
OctalChar(field, i) ==
  LET byte == (Digit(field[i + 1]) * 64 + Digit(field[i + 2]) * 8 + Digit(field[i + 3])) % 256
  IN  IF byte \in DOMAIN Octal THEN Octal[byte] ELSE "?"

\* Faulty: goes on after the backslash and not after the number.
DecodeShort(field) ==
  [i \in DOMAIN field |-> IF IsOctal(field, i) THEN OctalChar(field, i) ELSE field[i]]

DecodeMountField(field) ==
  LET from[i \in 1..(Len(field) + 1)] ==
        IF i > Len(field) THEN <<>>
        ELSE IF IsOctal(field, i) THEN <<OctalChar(field, i)>> \o from[i + 4]
        ELSE <<field[i]>> \o from[i + 1]
  IN  from[1]

\* The components of an absolute path, the root among them.
Components(path) ==
  IF path = <<>> THEN <<>> ELSE << <<"/">> >> \o Runs(path, {"/"})

\* Faulty: compares the paths as texts.
StartsWith(parent, child) == IsPrefix(parent, child)

PathContains(parent, child) == IsPrefix(Components(parent), Components(child))

\* Faulty: the first of two mounts on the same directory.
IsLonger(point, best) == Len(point) > best.length

IsNotShorter(point, best) == Len(point) >= best.length

\* The mount point is the fifth field of a line, the type follows the
\* separator, which comes after any number of optional fields.
FileSystemForPath(path, lines) ==
  LET Consider(best, fields) ==
        LET separator == SelectInSeq(fields, LAMBDA field : field = <<"-">>)
            point == DecodeMountField(fields[5])
        IN  IF /\ Len(fields) >= 7 /\ separator \notin {0, Len(fields)}
               /\ PathContains(point, path) /\ IsNotShorter(point, best)
            THEN [length |-> Len(point), type |-> fields[separator + 1]]
            ELSE best
  IN  FoldLeft(Consider, [length |-> 0, type |-> <<"unknown">>], lines).type

-----------------------------------------------------------------------------
(* Who writes these files. *)

\* A value as os-release(5) asks for it: quoted, with the special characters
\* escaped between double quotes.
Quoted(value, quote) ==
  LET Escape(text, c) ==
        text \o (IF quote = "\"" /\ c \in {"\"", "\\", "$", "backquote"} THEN <<"\\", c>> ELSE <<c>>)
  IN  <<quote>> \o FoldLeft(Escape, <<>>, value) \o <<quote>>

\* The kernel writes blanks and backslashes of a name as octal numbers.
Mangled(name) ==
  LET Mangle(text, c) ==
        text \o (CASE c = " " -> <<"\\", "0", "4", "0">>
                  [] c = "\t" -> <<"\\", "0", "1", "1">>
                  [] c = "\n" -> <<"\\", "0", "1", "2">>
                  [] c = "\\" -> <<"\\", "1", "3", "4">>
                  [] OTHER -> <<c>>)
  IN  FoldLeft(Mangle, <<>>, name)

\* A line for a mount, with some optional fields.
MountLine(mount) ==
  << <<"id">>, <<"parent">>, <<"device">>, <<"/">>, Mangled(mount.point), <<"options">> >>
  \o [i \in 1..mount.optional |-> <<"shared">>] \o << <<"-">>, mount.type, <<"source">> >>
=============================================================================
