------------------------------- MODULE Config -------------------------------
(***************************************************************************)
(* Config::from_yaml (config.cpp): a file is read line by line into a      *)
(* Config.  A line is blank (empty, a comment, no colon), opens a section  *)
(* or sets a key; a value stoul refuses is reported and skipped.           *)
(*                                                                         *)
(* A number is written as digits, with or without 0x; widths are           *)
(* parameters: 2^16, 2^32 and 2^64 in the code.                            *)
(***************************************************************************)
EXTENDS Numerals, FiniteSets, SequencesExt

CONSTANTS UInt16Values, UInt32Values, ULongValues,
          Invalid,        \* stoul throws
          Default,        \* the value config.hpp gives a number
          InputKeys,      \* bound: the keys of numbers that occur in the file
          Sections,       \* the section names that occur in the file
          Texts,          \* the numbers that occur in the file
          VersionLists,   \* the lists of versions that occur in the file
          MaxLines        \* bound: lines of the file

ConfigSections == {"rate_limiting", "connection_limits", "message_limits", "timeouts"}
UInt32Keys == {"messages_per_second", "burst_size", "handshake_attempts_per_minute",
               "connections_per_minute", "max_per_ip", "max_total", "max_ws_frame_size",
               "max_decrypted_payload", "handshake_ms", "idle_ms", "check_interval_ms",
               "request_ms"}
UInt16Keys == {"RESPONSE", "STREAM_START", "STREAM_DATA", "STREAM_END", "STREAM_CANCEL"}

\* A number as it is written, with the digits stoul takes.
Text == [hex : BOOLEAN, digits : Seq(0..15)]

ASSUME ConfigAssumption ==
  /\ {UInt16Values, UInt32Values, ULongValues} \subseteq Nat \ {0}
  /\ InputKeys \subseteq UInt32Keys \cup UInt16Keys
  /\ Texts \subseteq {t \in Text : t.hex \/ t.digits \in Seq(0..9)}
  /\ VersionLists \subseteq Seq(Text)
  /\ Invalid \notin Nat

VARIABLES section,  \* from_yaml's section
          cfg,      \* from_yaml's cfg
          lines     \* history: the lines read

configVars == <<section, cfg, lines>>

\* A file's lines.
Blank == [kind |-> "blank"]
Header(s) == [kind |-> "section", name |-> s]
Enabled(word) == [kind |-> "enabled", word |-> word]
NumberLine(k, text) == [kind |-> "number", key |-> k, text |-> text]
Versions(list) == [kind |-> "supported_versions", list |-> list]

Lines ==
  {Blank} \cup {Header(s) : s \in Sections}
    \cup {Enabled(w) : w \in {"yes", "no"}}
    \cup {NumberLine(k, t) : k \in InputKeys, t \in Texts}
    \cup {Versions(l) : l \in VersionLists}

-----------------------------------------------------------------------------
(***************************************************************************)
(* std::stoul: it throws without a digit and out of range; of 0x alone it  *)
(* takes the 0.                                                            *)
(***************************************************************************)
stoul(text, base) ==
  LET n == Numeral(base, text.digits)
  IN IF (text.digits = <<>> /\ ~text.hex) \/ n >= ULongValues THEN Invalid ELSE n

\* A number's base follows its prefix; a version is always hexadecimal.
parse_uint32(text) ==
  LET n == stoul(text, IF text.hex THEN 16 ELSE 10)
  IN IF n = Invalid THEN Invalid ELSE n % UInt32Values

ParsedNumber(k, text) ==
  LET n == parse_uint32(text)
  IN IF n = Invalid \/ k \in UInt32Keys THEN n ELSE n % UInt16Values

ParsedVersions(list) ==
  LET versions == [i \in DOMAIN list |-> stoul(list[i], 16)]
  IN IF versions = <<>> \/ Invalid \in Range(versions) THEN Invalid
     ELSE [i \in DOMAIN versions |-> versions[i] % UInt16Values]

-----------------------------------------------------------------------------
\* Config{}: the defaults, but no versions (with_defaults has two).
Config_defaults ==
  [enabled |-> [s \in ConfigSections |-> TRUE],
   number |-> [k \in UInt32Keys \cup UInt16Keys |-> Default],
   supported_versions |-> <<>>]

ConfigInit ==
  /\ section = ""
  /\ cfg = Config_defaults
  /\ lines = <<>>

\* parse_yaml_line: a header replaces the section, whatever its indentation.
SectionAfter(line) == IF line.kind = "section" THEN line.name ELSE section

SetEnabled(c, v) ==
  [c EXCEPT !.enabled = [s \in ConfigSections |-> IF s = section THEN v ELSE @[s]]]

SetNumber(c, k, text) ==
  LET n == ParsedNumber(k, text)
  IN IF n = Invalid THEN c ELSE [c EXCEPT !.number[k] = n]

\* Mistake: versions go into the configuration one by one, until stoul throws.
SetVersions_Partial(c, list) ==
  LET good == SelectInSeq(list, LAMBDA t : stoul(t, 16) = Invalid)
      n == IF good = 0 THEN Len(list) ELSE good - 1
  IN IF list = <<>> THEN c
     ELSE [c EXCEPT !.supported_versions =
             [i \in 1..n |-> stoul(list[i], 16) % UInt16Values]]

SetVersions(c, list) ==
  LET versions == ParsedVersions(list)
  IN IF versions = Invalid THEN c ELSE [c EXCEPT !.supported_versions = versions]

\* One round of from_yaml's loop.
from_yaml_line(line) ==
  /\ Len(lines) < MaxLines
  /\ lines' = Append(lines, line)
  /\ section' = SectionAfter(line)
  /\ cfg' = CASE line.kind = "enabled" -> SetEnabled(cfg, line.word \in {"true", "yes", "1"})
              [] line.kind = "number" -> SetNumber(cfg, line.key, line.text)
              [] line.kind = "supported_versions" -> SetVersions(cfg, line.list)
              [] OTHER -> cfg

-----------------------------------------------------------------------------
(***************************************************************************)
(* Properties                                                              *)
(***************************************************************************)
Is(i, kind) == lines[i].kind = kind

\* The section line i stands in: that of the nearest header above it.
SectionOf(i) ==
  LET h == Max({0} \cup {j \in 1..(i - 1) : Is(j, "section")})
  IN IF h = 0 THEN "" ELSE lines[h].name

(***************************************************************************)
(* What a file says is what the program gets (config.cpp 100-177): every   *)
(* setting has the value of the last line that gives it a valid one, and   *)
(* otherwise its default; an invalid line changes nothing, not even the    *)
(* part of a list that was read before the error; `enabled` switches the   *)
(* section it stands in and no other; no number exceeds its field.         *)
(***************************************************************************)
LastValidWins ==
  /\ \A s \in ConfigSections :
       LET i == Max({0} \cup {j \in DOMAIN lines : Is(j, "enabled") /\ SectionOf(j) = s})
       IN cfg.enabled[s] = IF i = 0 THEN TRUE ELSE lines[i].word = "yes"
  /\ \A k \in UInt32Keys \cup UInt16Keys :
       LET i == Max({0} \cup {j \in DOMAIN lines :
                                /\ Is(j, "number") /\ lines[j].key = k
                                /\ parse_uint32(lines[j].text) # Invalid})
           n == cfg.number[k]
       IN IF i = 0 THEN n = Default
          ELSE /\ n < (IF k \in UInt16Keys THEN UInt16Values ELSE UInt32Values)
               /\ n = ParsedNumber(k, lines[i].text)
  /\ LET i == Max({0} \cup {j \in DOMAIN lines :
                                /\ Is(j, "supported_versions")
                                /\ ParsedVersions(lines[j].list) # Invalid})
     IN cfg.supported_versions = IF i = 0 THEN <<>> ELSE ParsedVersions(lines[i].list)

=============================================================================
