-------------------------------- MODULE Paths --------------------------------
(***************************************************************************)
(* The functions on paths of lib/common.c and test/main.c.  A path is a    *)
(* sequence of words, in which "/" and "." are words of their own and NUL  *)
(* ends a string.                                                          *)
(***************************************************************************)
EXTENDS Integers, Sequences, FiniteSetsExt

Places(path, word) == {i \in DOMAIN path : path[i] = word}

\* What a reader of a string sees of an array of words.
CString(words) == SubSeq(words, 1, Min(Places(words, "NUL") \cup {Len(words) + 1}) - 1)

(***************************************************************************)
(* path_basename_noext walks back to the last slash and ends the name at   *)
(* the dot it met last, which is the first one.  Without a slash it looks  *)
(* at the word before the path and, when that is no slash, starts there.   *)
(***************************************************************************)
path_basename_noext(path, before) ==
  LET start == Max(Places(path, "/") \cup {0}) + 1
      end == Min({i \in start..Len(path) : path[i] = "."} \cup {Len(path) + 1})
      name == SubSeq(path, start, end - 1)
  IN IF start = 1 /\ before # "/" THEN CString(<<before>> \o name) ELSE name

path_withext(name, ext) == name \o ext

path_join(dir, name) == dir \o <<"/">> \o name

\* path_replace_ext of the test program goes by the last dot.
path_replace_ext(name, ext) ==
  IF Places(name, ".") = {} THEN name
  ELSE SubSeq(name, 1, Max(Places(name, ".")) - 1) \o ext

endswith(hay, needle) ==
  /\ Len(needle) <= Len(hay)
  /\ SubSeq(hay, Len(hay) - Len(needle) + 1, Len(hay)) = needle
=============================================================================
