-------------------------- MODULE MCPackageDownloader --------------------------
(* Small packages and environments for PackageDownloader *)
EXTENDS PackageDownloader

\* Prologs of 2 bytes, headers and the signature of 1, 3 bytes of binary data and
\* 1 of padding; only the UPCK section has comments.
SmallStart == <<0, 2, 3, 4, 6, 6, 7, 10, 11, 13, 13, 14>>

\* The comments of the UPCK section are longer than the temporary buffer
CommentStart == <<0, 2, 7, 8, 10, 10, 11, 13, 13, 15, 15, 16>>

\* What a platform reports that has an error for a failed last retry
RealErrors == DownloaderResults \ {"OK"}

HttpFailures == {"uri", "server", "other"}

\* No HTTP response was received
NoResponse == {"zero"}
=============================================================================
