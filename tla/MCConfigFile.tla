--------------------------- MODULE MCConfigFile ---------------------------
(* Instances of ConfigFile for TLC. *)
EXTENDS ConfigFile, Pow2

Header(sec, name) == [header |-> TRUE, key |-> sec, val |-> name, num |-> 0]
Set(key, val) == [header |-> FALSE, key |-> key, val |-> val, num |-> 0]
Num(key, v) == [header |-> FALSE, key |-> key, val |-> "", num |-> v]

Lines == <<
  Header("global", ""), Header("handler", "net"), Header("handler", "console"),
  Header("logger", "app"), Header("none", ""),
  Set("type", "socket"), Set("type", "console"), Set("type", "pipe"), Set("type", "file"),
  Set("level", "warn"), Num("listener", 9), Set("handlers", "net"), Set("handlers", "console"),
  Num("ring_buffer_size", 3), Set("filename", "f"), Header("handler", ""),
  Set("level", "loud"), Set("handlers", ""), Num("listener", 0), Header("logger", "db")>>

File(ns) == [i \in DOMAIN ns |-> Lines[ns[i]]]
UpTo(k) == UNION {{File(ns) : ns \in [1 .. m -> DOMAIN Lines]} : m \in 0 .. k}

(* Whole files: the guide's example without its file and syslog sections; the
   same with the logger first; more sections and keys than there is room for;
   sections of one name, and of a name or type that is dropped; a console
   section with a name of its own. *)
Whole == {File(ns) : ns \in {
  <<1, 14, 3, 7, 10, 2, 6, 10, 11, 4, 10, 13, 12, 12>>,
  <<4, 10, 13, 12, 12, 3, 7, 2, 6, 11>>,
  <<2, 6, 11, 11, 11, 3, 7, 2, 9, 15, 11, 4, 12, 13, 12, 20, 12, 4, 10>>,
  <<2, 9, 15, 3, 6, 11, 4, 13, 16, 7, 5, 10, 4, 12>>,
  <<2, 6, 17, 19, 2, 7, 10, 11, 20, 18, 13, 10, 20, 12, 17>>,
  <<2, 7, 4, 12>>}}

(* One handler, with the small sizes of the ring and those around each power of two. *)
RingSizes == -1 .. 17 \cup {2 ^ e + d : e \in 5 .. 29, d \in -1 .. 1}
Sizes == {<<Lines[1], Num("ring_buffer_size", k), Lines[2], Lines[6]>> : k \in RingSizes}

SmallFiles == UpTo(3) \cup Whole \cup Sizes
============================================================================
