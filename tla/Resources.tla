------------------------------- MODULE Resources -------------------------------
(***************************************************************************)
(* The pages of cifar-server/resources.c and the response they fill        *)
(* (http_response.h), as operators.  A cell of a page is a pair of a kind  *)
(* of text and a number; markup is one cell.  ContentType and the date are *)
(* left out.                                                               *)
(***************************************************************************)
EXTENDS StringBuilder, Pictures

CONSTANTS
  CIFAR_TABLE_SIZE,
  NULL

CIFAR_IMG_PER_PAGE == CIFAR_TABLE_SIZE * CIFAR_TABLE_SIZE

CIFAR_NUM_PAGES == CIFAR_NUM_IMAGES \div CIFAR_IMG_PER_PAGE

\* What a piece of text can be, and a number in it.
Kinds == {"html", "page", "image", "link", "bitmap", "entry", "error", "file", "header", "blank",
          "status", "length"}
Cells == Kinds \X Int

\* There are whole pages of pictures only.
ASSUME ResourcesAssumption ==
  /\ CIFAR_TABLE_SIZE \in Nat \ {0}
  /\ CIFAR_NUM_IMAGES % CIFAR_IMG_PER_PAGE = 0
  /\ NULL \notin Seq(Cells)

Html == <<"html", 0>>
PageNo(p) == <<"page", p>>
Image(n) == <<"image", n>>        \* the link to a picture
PageLink(p) == <<"link", p>>      \* the link to a page
Bitmap(n) == <<"bitmap", n>>      \* the picture itself; -1 if it is none
Entry(i) == <<"entry", i>>        \* a file or directory of a listing
Error(code) == <<"error", code>>
FileByte == <<"file", 0>>
HeaderLine == <<"header", 0>>
Blank == <<"blank", 0>>           \* the line after the headers

\* THttpResponse_Init.
NewResponse ==
  [Code |-> 200, Body |-> NewBuilder, should_use_sendfile |-> FALSE,
   file_path_requested |-> NULL, sent_file_size |-> 0]

CreateErrorPage(r, code) ==
  [r EXCEPT !.Code = code, !.Body = Sprintf(Clear(r.Body), <<Error(code)>>)]

PreviousPage(p) == IF p > 0 THEN p - 1 ELSE CIFAR_NUM_PAGES - 1

\* Mutant: the last page has a next one.
NextPageUnwrapped(p) == IF p + 1 <= CIFAR_NUM_PAGES THEN p + 1 ELSE 0

NextPage(p) == IF p + 1 < CIFAR_NUM_PAGES THEN p + 1 ELSE 0

IndexBody(body, page) ==
  LET img == page * CIFAR_IMG_PER_PAGE
      opened == Sprintf(AppendBuf(body, <<Html>>), <<PageNo(page)>>)
      table == SprintfAll(opened, [i \in 1 .. CIFAR_IMG_PER_PAGE |-> Image(img + i - 1)])
      links == Sprintf(Sprintf(table, <<PageLink(PreviousPage(page))>>),
                       <<PageLink(NextPage(page))>>)
  IN  AppendBuf(links, <<Html>>)

CreateIndexPage(r, page) ==
  IF page < 0 \/ page >= CIFAR_NUM_PAGES THEN CreateErrorPage(r, 404)
  ELSE [r EXCEPT !.Body = IndexBody(@, page)]

ListingBody(body, n) ==
  LET opened == Sprintf(AppendBuf(body, <<Html>>), <<PageNo(0)>>)
      listed == SprintfAll(opened, [i \in 1 .. n |-> Entry(i)])
  IN  AppendBuf(listed, <<Html>>)

\* The listing of a directory of which n entries could be read.
DirListing(r, n) == [r EXCEPT !.Body = ListingBody(@, n)]

\* The picture the copy finds; past the end of the file it finds none.
PictureRead(n, size) == IF WholeInFile(n, size) THEN n ELSE -1

BitmapBody(r, n) == [r EXCEPT !.Body = AppendBuf(Clear(@), <<Bitmap(n)>>)]
--------------------------------------------------------------------------------
(* The same pages as a reader expects them.                                *)

IndexText(p) ==
  <<Html, PageNo(p)>>
  \o [i \in 1 .. CIFAR_IMG_PER_PAGE |-> Image(p * CIFAR_IMG_PER_PAGE + i - 1)]
  \o <<PageLink((p - 1) % CIFAR_NUM_PAGES), PageLink((p + 1) % CIFAR_NUM_PAGES), Html>>

ListingText(n) == <<Html, PageNo(0)>> \o [i \in 1 .. n |-> Entry(i)] \o <<Html>>

Links(page, kind) ==
  LET cells == ToSet(Text(CreateIndexPage(NewResponse, page).Body))
  IN  {cell[2] : cell \in {c \in cells : c[1] = kind}}

\* The page reached from page p with Next, k times.
PageAfter(p, k) ==
  LET after[i \in 0 .. k] == IF i = 0 THEN p ELSE NextPage(after[i - 1])
  IN  after[k]
================================================================================
