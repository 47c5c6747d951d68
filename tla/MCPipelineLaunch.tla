-------------------------- MODULE MCPipelineLaunch --------------------------
EXTENDS PipelineLaunch

ToFile(fd) == [left_fd |-> fd, right_fd |-> -1]
Copy(left, right) == [left_fd |-> left, right_fd |-> right]

\* nothing, "<file 2>file", ">file 2>&1 <file", "2>&1 >file", ">file >file"
MCRedirectLists == {<<>>, <<ToFile(0), ToFile(2)>>, <<ToFile(1), Copy(2, 1), ToFile(0)>>,
                    <<Copy(2, 1), ToFile(1)>>, <<ToFile(1), ToFile(1)>>}
=============================================================================
