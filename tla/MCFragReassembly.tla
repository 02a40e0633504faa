--------------------------- MODULE MCFragReassembly ---------------------------
(***************************************************************************)
(* Devices for model checking FragReassembly.  A word and a body header    *)
(* are 2 bytes long here (4 in the driver) and inbuf is four words long    *)
(* (128 in the driver).                                                    *)
(***************************************************************************)
EXTENDS FragReassembly

Shape(content, ends) == [content |-> content, ends |-> ends]

\* Reports in one fragment: header only, exact, padded to a word, full inbuf.
SingleShapes == {Shape(0, <<2>>), Shape(2, <<4>>), Shape(1, <<4>>), Shape(6, <<8>>)}

\* Reports in several fragments whose length is a multiple of the word.
ExactShapes == {Shape(4, <<2, 4, 6>>), Shape(6, <<6, 8>>), Shape(2, <<2, 4>>)}

\* Reports the driver rejects: body larger than inbuf, announced total larger
\* than inbuf, content announced but not sent, content sent but not announced.
OddShapes == {Shape(8, <<10>>), Shape(8, <<4, 8, 10>>), Shape(6, <<2, 6>>),
              Shape(0, <<4, 6, 8>>)}

ReliableDevice == SingleShapes \cup ExactShapes

\* Among others one whose last fragment is padded to the word.
AnyDevice == {Shape(1, <<4>>), Shape(4, <<2, 4, 6>>), Shape(6, <<6, 8>>),
              Shape(3, <<2, 4, 6>>)} \cup OddShapes

SomeGarbage == {0, 3, 9}
===============================================================================
