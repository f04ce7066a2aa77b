---------------------------- MODULE MCRequestHandler ----------------------------
(* Small instances of RequestHandler for TLC: "/i/" and "/s/" begin the     *)
(* routes, "p" is the name of the parameter.                                *)
EXTENDS RequestHandler

MCImages == <<Slash, 105, Slash>>
MCStatic == <<Slash, 115, Slash>>
MCBmp == <<46, 98>>
MCPage == <<112>>
MCMimeTypes == <<[Extension |-> <<46, 99>>, MimeType |-> "css"],
                 [Extension |-> <<46, 83>>, MimeType |-> "svg"]>>

TextsUpTo(n, bytes) == UNION {[1 .. k -> bytes] : k \in 0 .. n}

\* Queries of any bytes of "p=&1", and numbers of every length and sign.
Queries ==
  TextsUpTo(5, {112, Equals, Ampersand, 49})
    \cup {<<112, Equals>> \o v : v \in TextsUpTo(4, {57, Minus, 48})}

\* Escapes of ".", "c", a NUL and others, whole and cut off.
Names == TextsUpTo(4, {Percent, 48, 50, 69, 99, 46}) \cup
         {s \o <<46, 99>> : s \in TextsUpTo(3, {Percent, 48, 99, 67})}

MCTargets ==
  {<<Slash>>, <<105>>, <<Slash, 105>>, MCStatic \o <<Percent, 50, 101, 67>>}
    \cup {<<Slash, QuestionMark>> \o q : q \in Queries}
    \cup {MCImages \o t : t \in TextsUpTo(3, {49, 50, 57, Minus, 46, 9})}
    \cup {ImageLinkText(n) : n \in 0 .. CIFAR_NUM_IMAGES}
    \cup {PageLinkText(n) : n \in 0 .. CIFAR_NUM_IMAGES}
    \cup {MCStatic \o s : s \in Names}
================================================================================
