---- MODULE MCIndentScanner ----
EXTENDS IndentScanner
===============================
