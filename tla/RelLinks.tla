------------------------------ MODULE RelLinks ------------------------------
(***************************************************************************)
(* -o rellinks of the subdir module: an absolute symbolic link below the   *)
(* base directory is rewritten so that it is relative to the link's own    *)
(* place.  The algorithm works on characters, so here strings are          *)
(* sequences of characters.                                                *)
(***************************************************************************)
EXTENDS Integers, SequencesExt

CONSTANTS LinkBases,   \* d->base, each ending in "/"
          LinkPlaces,  \* paths below the base, without a leading "/"
          LinkTexts,   \* contents of the link
          LinkSizes    \* size of the buffer

VARIABLE link  \* the arguments of one call

CharsFrom(s, i) == SubSeq(s, i, Len(s))
Slash == "/"
SkipSlashes(s) ==
  LET From(i) == IF i = 0 THEN << >> ELSE CharsFrom(s, i) IN From(SelectInSeq(s, LAMBDA c : c # Slash))
Component(s) ==
  LET Before(i) == IF i = 0 THEN s ELSE SubSeq(s, 1, i - 1) IN Before(SelectInSeq(s, LAMBDA c : c = Slash))

RECURSIVE Components(_)
Components(p) ==
  LET First(s, c) == <<c>> \o Components(CharsFrom(s, Len(c) + 1))
      Split(s) == IF s = << >> THEN << >> ELSE First(s, Component(s))
  IN Split(SkipSlashes(p))
count_components(p) == Len(Components(p))

\* Equal characters up to a slash or an end.
RECURSIVE Common(_, _)
Common(s, t) == IF s = << >> \/ t = << >> \/ s[1] # t[1] \/ s[1] = Slash THEN 0 ELSE 1 + Common(Tail(s), Tail(t))

\* Both paths from the first component on in which they differ.
RECURSIVE strip_common(_, _)
strip_common(sp, tp) ==
  LET Again(s, t) == \/ s # << >> /\ t # << >> /\ s[1] = t[1]
                     \/ s = << >> /\ t # << >> /\ t[1] = Slash
                     \/ t = << >> /\ s # << >> /\ s[1] = Slash
      Cut(s, t, s2, t2) == IF Again(s2, t2) THEN strip_common(s2, t2) ELSE [s |-> s, t |-> t]
      Skip(s, t, n) == Cut(s, t, CharsFrom(s, n + 1), CharsFrom(t, n + 1))
      Strip(s, t) == Skip(s, t, Common(s, t))
  IN Strip(SkipSlashes(sp), SkipSlashes(tp))

RECURSIVE DotDots(_)
DotDots(n) == IF n = 0 THEN << >> ELSE <<".", ".", Slash>> \o DotDots(n - 1)

transform_symlink_noprefix(base, path, buf, size) ==
  LET Rewrite(c, dotdots) == IF dotdots < 0 \/ dotdots * 3 + Len(c.s) + 2 > size THEN buf ELSE DotDots(dotdots) \o c.s
      Stripped(c) == Rewrite(c, count_components(c.t) - 1)
  IN IF buf = << >> \/ buf[1] # Slash THEN buf ELSE Stripped(strip_common(buf, path))
transform_symlink(base, path, buf, size) ==
  LET Rewrite(c, dotdots) ==
        IF Len(buf) - Len(c.s) < Len(base) \/ dotdots < 0 \/ dotdots * 3 + Len(c.s) + 2 > size THEN buf
        ELSE IF c.s = << >> /\ dotdots = 0 THEN <<".">>
        ELSE DotDots(dotdots) \o c.s
      Stripped(c) == Rewrite(c, count_components(c.t) - 1)
  IN IF buf = << >> \/ buf[1] # Slash \/ base = << >> \/ base[1] # Slash THEN buf
     ELSE Stripped(strip_common(buf, path))

\* subdir_readlink of a link at `place' below the base; NoLink between calls.
NoLink == [base |-> << >>, place |-> << >>, text |-> << >>, size |-> 0]
RelLinksInit == link = NoLink
ReadLinkReply ==
  /\ link = NoLink
  /\ link' \in [base : LinkBases, place : LinkPlaces \ {<< >>}, text : LinkTexts, size : LinkSizes]
  /\ Len(link'.text) < link'.size
RelLinksNext == ReadLinkReply \/ (link # NoLink /\ link' = NoLink)

-----------------------------------------------------------------------------
(* Properties                                                              *)

LinkPath == link.base \o link.place
LinkResult == transform_symlink(link.base, LinkPath, link.text, link.size)
Asked == link # NoLink

\* The directory that a relative path leads to from a directory; every directory
\* on the way is assumed to be one, not a link.
RECURSIVE Resolve(_, _)
Resolve(dir, rel) ==
  IF rel = << >> THEN dir
  ELSE IF rel[1] = <<".">> THEN Resolve(dir, Tail(rel))
  ELSE IF rel[1] = <<".", ".">> THEN Resolve(IF dir = << >> THEN dir ELSE Front(dir), Tail(rel))
  ELSE Resolve(Append(dir, rel[1]), Tail(rel))
DoubledSlash(s) == \E i \in 1..(Len(s) - 1) : s[i] = Slash /\ s[i + 1] = Slash

\* A link that is rewritten still leads to the same place, which lies below the
\* base, for links up, down and across the tree and for names that begin alike.
\* (For texts with doubled slashes it need not: the prefix is compared by length.)
RewrittenLeadsThere(result) ==
  (result # link.text /\ ~DoubledSlash(link.text)) =>
    /\ Resolve(Front(Components(LinkPath)), Components(result)) = Components(link.text)
    /\ IsPrefix(Components(link.base), Components(link.text))

\* What is written fits the buffer with its terminating zero.
RewrittenFits(result) == Len(result) < link.size

\* A rewritten link leads where the original led and fits the caller's buffer.
LinkRewritten ==
  LET Right(result) == RewrittenLeadsThere(result) /\ RewrittenFits(result)
  IN Asked => Right(LinkResult)
=============================================================================
